---- MODULE Spec2Model ----
(***************************************************************************)
(* Lifecycle of the rplc runtime kernel: the controller status, the thread *)
(* registry (readiness / stopped tables), the Input / Program / Output     *)
(* loop composers, the Loop driver's gate and first-tick marking, and the  *)
(* main thread's run() with its shutdown sequence.                         *)
(*                                                                         *)
(* Every read and every store of the atomic STATUS is a separate step, so  *)
(* that the interleavings of the main thread with the loop threads are the *)
(* ones the program has.  The CONTROLLER_STATS mutex is the variable       *)
(* cs_lock; a thread that holds it keeps it across its steps exactly as    *)
(* the guard object of the source does.                                    *)
(*                                                                         *)
(* Spec / FairSpec: the kernel when the shutdown takes less than           *)
(* stop_timeout.  WatchdogSpec: the kernel with the stop_timeout thread.   *)
(* SpawnSpec: the kernel with late callers of spawn.  ImageSpec: the       *)
(* bodies of Program and Output threads on the process image and its lock. *)
(* ServiceSpec: the kernel with callers of spawn_service.  BusySpec: the    *)
(* kernel with a spawn under a name that is already registered.            *)
(* StatsSpec: the stats channel, its collector and the reset of the API.   *)
(* JitterSpec: the accumulation of jitter samples in one record.           *)
(* LoopSpec: the timing of Loop::tick.  ApiSpec: the control connections.  *)
(* EapiSpec: the action handlers and their events.  ModbusSpec: the        *)
(* conversions between arrays and Modbus registers.  GateSpec /            *)
(* GateFairSpec: the kernel with the steps of wait_can_run_*.  LockSpec:   *)
(* the kernel with the lock operations on STATUS_MUTEX and on the          *)
(* registry as steps.                                                      *)
(***************************************************************************)
EXTENDS Integers, Sequences, FiniteSets, TLC

\* ---------------------------------------------------------------- bounds
\* at most MaxThreads loop threads are spawned, of any mix of kinds
MaxThreads == 2
\* the ghost counter of late body executions saturates here
MaxLate == 2
\* the process image has NumCells fields
NumCells == 2
\* the Program ticks that write the image are numbered modulo MaxTicks
MaxTicks == 2

\* u16 and u32 are scaled to Bits16 and Bits32 bits
Bits16 == 2
Bits32 == 3
\* STATS_CHANNEL_SIZE, scaled: the capacity of the stats channel
StatsChannelSize == 2
\* at most MaxSamples calls of report_jitter are followed through the channel
MaxSamples == 3

\* the clients write at most MaxRequests frames in all
MaxRequests == 2
\* the listener of the control socket accepts at most MaxConns connections
MaxConns == 2
\* the blocking pool of the EAPI runtime has ActionPoolSize threads
ActionPoolSize == 2
\* a byte is scaled to ByteBits bits; a Modbus register has two bytes
ByteBits == 1
\* the arrays converted to and from registers have at most MaxLen elements
MaxLen == 2
\* a Loop's interval is 1..MaxInterval clock units
MaxInterval == 2

\* one action request more than the pool has threads arrives
MaxActions == ActionPoolSize + 1
\* the clock stops at MaxTime
MaxTime == 4 * MaxInterval + 2

U16_MAX == 2 ^ Bits16 - 1
U32_MAX == 2 ^ Bits32 - 1

\* ------------------------------------------------- Status (tasks.rs:102)
Inactive == 0
Starting == 1
Syncing == 2
Preparing == 3
Active == 100
Stopping == -1
StopSyncing == -2
Stopped == -100

\* ------------------------------------------------------- thread names
\* A thread name is <<prefix, index>>: the prefix is Kind::thread_prefix.
InputNames == {<<"I", i>> : i \in 1..MaxThreads}
ProgramNames == {<<"P", i>> : i \in 1..MaxThreads}
OutputNames == {<<"O", i>> : i \in 1..MaxThreads}
Threads == InputNames \cup ProgramNames \cup OutputNames

\* Service threads: the stats collector that tasks::init() spawns, the API
\* listener that run() spawns, and the services of the application
StatsName == <<"S", 0>>
ApiName == <<"S", -1>>
ServiceNames == {<<"S", i>> : i \in 1..MaxThreads}

Kind(t) == t[1]

\* the CONTROLLER_STATS mutex is held by nobody
Free == <<"free", 0>>

\* the thread that runs run()
MainName == <<"main", 0>>

\* Option<T>
None == <<>>
Some(v) == <<v>>

VARIABLES
    status,                 \* STATUS
    status_log,             \* every value stored by set_status, in order
    term_flag,              \* TERM_FLAG
    shutdown_fn,            \* SHUTDOWN_FN is set
    wait_handles,           \* WAIT_HANDLES: Option<Vec<JoinHandle>>
    join_queue,             \* shutdown(): the handles not joined yet
    input_threads_ready,    \* ControllerStats fields
    program_threads_ready,
    output_threads_stopped,
    inputs_ready,
    programs_ready,
    outputs_stopped,
    cs_lock,                \* holder of the CONTROLLER_STATS mutex
    main_pc,                \* position of the main thread
    pc,                     \* position of each loop thread
    marked,                 \* Loop.marked of each loop thread
    last_sync,              \* the Output loop's local last_sync
    ran,                    \* the thread has completed a body phase
    late,                   \* body executions begun after shutdown began
    hook_calls,             \* number of calls of the shutdown hook
    exit_code,              \* None while the process runs, Some(code) after
    watchdog,               \* run() has spawned the stop_timeout thread
    pid_file,               \* <var_dir>/<name>.pid exists
    socket,                 \* <var_dir>/<name>.plcsock exists
    spawn_error,            \* spawn has logged "can not spawn ..."
    image,                  \* CONTEXT: the fields of the process image
    ctx_writer,             \* CONTEXT (RwLock): the holder of the write lock
    ctx_readers,            \* CONTEXT (RwLock): the holders of a read lock
    ctx_pc,                 \* position of a thread inside its body
    cursor,                 \* the field a body is about to write or copy
    data,                   \* the local copy an Output worker sends out
    ticks,                  \* number of the last Program tick on the image
    thread_stats,           \* ControllerStats.thread_stats
    stats_ch,               \* the stats channel (STATS_TX / rx)
    stats_cur,              \* the sample the stats collector has received
    dropped,                \* number of samples report_jitter has discarded
    sent,                   \* number of calls of report_jitter
    resets,                 \* resets since a sample was last processed
    svc_called,             \* Service names spawn has been called with
    svc_started,            \* Service threads whose closure has been started
    busy,                   \* Some(name) when registering name has failed with Error::busy
    now,                    \* the clock (Instant::now())
    interval,               \* Loop.interval
    next_iter,              \* Loop.next_iter
    tick_pc,                \* position of the thread that drives the Loop
    tk,                     \* tick(): the local t
    wake_at,                \* the earliest end of the sleep in tick()
    result,                 \* the value the last tick() returned
    slept,                  \* the last tick() has slept
    overrun_by,             \* how late the last tick() that returned false was
    t0,                     \* the time Loop::prepare has read
    nticks,                 \* number of tick() calls that have returned
    conn,                   \* the control connection
    api_in,                 \* requests written by the client, not read yet
    api_cur,                \* the request handle_api_stream is working on
    api_resp,               \* the last response written to the connection
    api_sent,               \* number of requests the client has written
    api_read,               \* number of requests read that passed check()
    api_nresp,              \* number of responses written
    api_conns,              \* number of connections the listener has accepted
    api_err,                \* the last error a connection's handler has logged
    action_handlers,        \* ACTION_HANDLERS: the items that have a handler
    ah_lock,                \* the holder of the ACTION_HANDLERS mutex
    publisher_tx,           \* PUBLISHER_TX is Some
    events,                 \* the events sent to the publisher, per action
    act,                    \* the blocking task of each action request
    mb,                     \* a conversion to and from Modbus coils / registers
    gate                    \* each thread's position in wait_can_run_*

vars == <<status, status_log, term_flag, shutdown_fn, wait_handles, join_queue,
          input_threads_ready, program_threads_ready, output_threads_stopped,
          inputs_ready, programs_ready, outputs_stopped, cs_lock, main_pc, pc,
          marked, last_sync, ran, late, hook_calls, exit_code, watchdog,
          pid_file, socket, spawn_error, image, ctx_writer, ctx_readers, ctx_pc, cursor,
          data, ticks, thread_stats, stats_ch, stats_cur, dropped, sent, resets,
          svc_called, svc_started, busy, now, interval, next_iter, tick_pc, tk,
          wake_at, result, slept, overrun_by, t0, nticks, conn, api_in, api_cur, api_resp,
          api_sent, api_read, api_nresp, api_conns, api_err, action_handlers,
          ah_lock, publisher_tx, events, act, mb, gate>>

registry == <<input_threads_ready, program_threads_ready, output_threads_stopped,
              inputs_ready, programs_ready, outputs_stopped>>

\* the process and the files it leaves in var_dir
os == <<exit_code, watchdog, pid_file, socket>>

\* the process image, its lock and the bodies that use it
ctx_vars == <<image, ctx_writer, ctx_readers, ctx_pc, cursor, data, ticks>>

\* a Loop and the clock
loop_vars == <<now, interval, next_iter, tick_pc, tk, wake_at, result, slept,
               overrun_by, t0, nticks>>

\* a control connection
api_vars == <<conn, api_in, api_cur, api_resp, api_sent, api_read, api_nresp,
              api_conns, api_err>>

eapi_vars == <<action_handlers, ah_lock, publisher_tx, events, act>>

io_vars == <<loop_vars, api_vars, eapi_vars, mb, gate>>

\* the stats channel, its collector and the callers of the API and of spawn
aux == <<stats_ch, stats_cur, dropped, sent, resets, svc_called, svc_started, busy,
         io_vars>>

\* the kernel: everything but the process image
kernel == <<status, status_log, term_flag, shutdown_fn, wait_handles, join_queue,
            registry, cs_lock, main_pc, pc, marked, last_sync, ran, late,
            hook_calls, os, spawn_error>>

\* the process has not exited: no thread of an exited process takes a step
alive == exit_code = None

Cells == 1..NumCells

\* the value of a field: the Program that wrote it and the number of the
\* tick (the write lock puts the ticks of all Programs in one sequence)
Default == <<"none", 0, 0>>
Stamp(p, k) == <<"P", p[2], k>>

\* ------------------------------------------------------------- helpers
Range(f) == {f[x] : x \in DOMAIN f}
AllTrue(m) == \A k \in DOMAIN m : m[k]
is_empty(m) == DOMAIN m = {}
insert(m, k, v) == [x \in (DOMAIN m) \cup {k} |-> IF x = k THEN v ELSE m[x]]

\* ThreadStats::default()
ThreadStatsDefault == [iters |-> 0, jitter |-> None]

\* wait_can_run_*: the thread is at the test of the `while`
AtCheck == [pc |-> "check", seen |-> 0]

\* no conversion has been made
NoConversion ==
    [pc |-> "none", ty |-> "u16", vals |-> <<>>, regs |-> <<>>, to |-> "u16",
     scalar |-> FALSE, idx |-> 0, n |-> 0, slice |-> None, out |-> None]

\* an action request that has not arrived
NoAction == [pc |-> "none", oid |-> 0, res |-> None, calls |-> 0, orphan |-> FALSE]

\* the holder of STATUS_MUTEX between two steps: a thread that has locked it
\* in wait_can_run_* and has not yet begun its wait_for
status_mutex ==
    IF \E t \in Threads : gate[t].pc = "locked"
    THEN CHOOSE t \in Threads : gate[t].pc = "locked"
    ELSE Free

\* set_status: `let _lock = STATUS_MUTEX.lock()`, the store, the log line and
\* notify_all; the mutex is released on return
set_status(s) ==
    /\ status_mutex = Free
    /\ status' = s
    /\ status_log' = Append(status_log, s)

no_status == UNCHANGED <<status, status_log>>

\* ------------------------------------------------------ phase predicates
can_run_inputs == status >= Syncing

can_run_programs == status >= Preparing

\* seeded fault: Outputs are let through one phase early
can_run_outputs_early == status >= Syncing \/ status <= Stopping

can_run_outputs == status >= Preparing \/ status <= Stopping

can_run(t) ==
    CASE Kind(t) = "I" -> can_run_inputs
      [] Kind(t) = "P" -> can_run_programs
      [] Kind(t) = "O" -> can_run_outputs

need_stop(kind) ==
    CASE kind = "I" -> status <= Stopping
      [] kind = "P" -> status <= Stopping
      [] kind = "O" -> status <= StopSyncing
      [] OTHER -> FALSE

\* seeded fault: the final sync is looked for in the wrong phase
output_last_sync_stopping == status = Stopping

output_last_sync == status = StopSyncing

\* ---------------------------------------------------------------- Init
\* the state after init_plc!(): tasks::init() has made WAIT_HANDLES Some, has
\* created the stats channel and has spawned the stats collector
Init ==
    /\ status = Inactive
    /\ status_log = <<>>
    /\ term_flag = FALSE
    /\ shutdown_fn = FALSE
    /\ wait_handles = Some(<<>>)
    /\ join_queue = <<>>
    /\ input_threads_ready = <<>>
    /\ program_threads_ready = <<>>
    /\ output_threads_stopped = <<>>
    /\ inputs_ready = TRUE
    /\ programs_ready = TRUE
    /\ outputs_stopped = TRUE
    /\ cs_lock = Free
    /\ main_pc = "setup"
    /\ pc = [t \in Threads |-> "unspawned"]
    /\ marked = [t \in Threads |-> FALSE]
    /\ last_sync = [t \in Threads |-> FALSE]
    /\ ran = [t \in Threads |-> FALSE]
    /\ late = [t \in Threads |-> 0]
    /\ hook_calls = 0
    /\ exit_code = None
    /\ watchdog = FALSE
    /\ pid_file = FALSE
    /\ socket = FALSE
    /\ spawn_error = FALSE
    /\ image = [c \in Cells |-> Default]
    /\ ctx_writer = None
    /\ ctx_readers = {}
    /\ ctx_pc = [t \in ProgramNames \cup OutputNames |-> "idle"]
    /\ cursor = [t \in ProgramNames \cup OutputNames |-> 1]
    /\ data = [t \in OutputNames |-> [c \in Cells |-> Default]]
    /\ ticks = 0
    /\ thread_stats = (StatsName :> ThreadStatsDefault)
    /\ stats_ch = <<>>
    /\ stats_cur = None
    /\ dropped = 0
    /\ sent = 0
    /\ resets = 0
    /\ svc_called = {}
    /\ svc_started = {StatsName}
    /\ busy = None
    /\ now = 0
    /\ interval = 0
    /\ next_iter = 0
    /\ tick_pc = "unprepared"
    /\ tk = 0
    /\ wake_at = 0
    /\ result = None
    /\ slept = FALSE
    /\ overrun_by = 0
    /\ t0 = 0
    /\ nticks = 0
    /\ conn = "none"
    /\ api_in = <<>>
    /\ api_cur = None
    /\ api_resp = None
    /\ api_sent = 0
    /\ api_read = 0
    /\ api_nresp = 0
    /\ api_conns = 0
    /\ api_err = None
    /\ action_handlers = {}
    /\ ah_lock = None
    /\ publisher_tx = FALSE
    /\ events = [a \in 1..MaxActions |-> <<>>]
    /\ act = [a \in 1..MaxActions |-> NoAction]
    /\ mb = NoConversion
    /\ gate = [t \in Threads |-> AtCheck]

\* ------------------------------------------------- registration, spawn
\* register_thread_stats, the Vacant arm: v.insert(ThreadStats::default())
register_thread_stats(name) == insert(thread_stats, name, ThreadStatsDefault)

register_input_thread(name) ==
    /\ thread_stats' = register_thread_stats(name)
    /\ input_threads_ready' = insert(input_threads_ready, name, FALSE)
    /\ inputs_ready' = FALSE
    /\ UNCHANGED <<program_threads_ready, programs_ready,
                   output_threads_stopped, outputs_stopped>>

register_program_thread(name) ==
    /\ thread_stats' = register_thread_stats(name)
    /\ program_threads_ready' = insert(program_threads_ready, name, FALSE)
    /\ programs_ready' = FALSE
    /\ UNCHANGED <<input_threads_ready, inputs_ready,
                   output_threads_stopped, outputs_stopped>>

\* seeded fault: an Output is registered without clearing the aggregate flag
register_output_thread_keep_flag(name) ==
    /\ output_threads_stopped' = insert(output_threads_stopped, name, FALSE)
    /\ outputs_stopped' = outputs_stopped
    /\ thread_stats' = register_thread_stats(name)
    /\ UNCHANGED <<input_threads_ready, inputs_ready,
                   program_threads_ready, programs_ready>>

register_output_thread(name) ==
    /\ output_threads_stopped' = insert(output_threads_stopped, name, FALSE)
    /\ outputs_stopped' = FALSE
    /\ thread_stats' = register_thread_stats(name)
    /\ UNCHANGED <<input_threads_ready, inputs_ready,
                   program_threads_ready, programs_ready>>

\* spawn(name, kind, f) called on the main thread: by the application before
\* run(), or by launch_datasync() inside run().  Names are spawned in index
\* order within a kind (a name is only a label).  The new thread starts in
\* Loop::prepare, at its phase gate.
spawn(t) ==
    /\ alive
    /\ main_pc \in {"setup", "launch"}
    /\ pc[t] = "unspawned"
    /\ Cardinality({u \in Threads : pc[u] # "unspawned"}) < MaxThreads
    /\ IF t[2] = 1 THEN TRUE ELSE pc[<<t[1], t[2] - 1>>] # "unspawned"
    /\ status \in {Inactive, Starting}
    /\ wait_handles # None
    /\ cs_lock = Free
    /\ CASE Kind(t) = "I" -> register_input_thread(t)
         [] Kind(t) = "P" -> register_program_thread(t)
         [] Kind(t) = "O" -> register_output_thread(t)
    /\ pc' = [pc EXCEPT ![t] = "gate"]
    /\ wait_handles' = IF Kind(t) \in {"I", "P"}
                       THEN Some(Append(wait_handles[1], t))
                       ELSE wait_handles
    /\ UNCHANGED <<status, status_log, term_flag, shutdown_fn, join_queue,
                   cs_lock, main_pc, marked, last_sync, ran, late, hook_calls, os,
                   spawn_error, ctx_vars, aux>>

\* seeded fault: the late thread is refused only after it has been registered
spawn_late_registered(t) ==
    /\ alive
    /\ status \notin {Inactive, Starting}
    /\ cs_lock = Free
    /\ CASE Kind(t) = "I" -> register_input_thread(t)
         [] Kind(t) = "P" -> register_program_thread(t)
         [] Kind(t) = "O" -> register_output_thread(t)
    /\ spawn_error' = TRUE
    /\ UNCHANGED <<status, status_log, term_flag, shutdown_fn, wait_handles,
                   join_queue, cs_lock, main_pc, pc, marked, last_sync, ran,
                   late, hook_calls, os, ctx_vars, aux>>

\* spawn(name, kind, f) with kind # Service, called by any thread when the
\* status is neither Inactive nor Starting: the error is logged and spawn
\* returns
spawn_late(t) ==
    /\ alive
    /\ status \notin {Inactive, Starting}
    /\ spawn_error' = TRUE
    /\ UNCHANGED <<status, status_log, term_flag, shutdown_fn, wait_handles,
                   join_queue, registry, cs_lock, main_pc, pc, marked, last_sync,
                   ran, late, hook_calls, os, ctx_vars, thread_stats, aux>>

\* shutdown() holds the WAIT_HANDLES mutex from its take() to the end of the
\* `if let` block, that is, while it joins the handles and calls the hook
wait_handles_locked == main_pc \in {"join", "hook", "hook_running"}

\* spawn(name, Kind::Service, f) called by any thread with a name that is not
\* registered: the status test lets a Service pass; the thread is registered
\* and started inside `if let Some(wait_handles) = WAIT_HANDLES.lock().as_mut()`,
\* and nothing is done (and nothing is logged) when WAIT_HANDLES is None.
\* A Service's handle is not kept.
spawn_service(s) ==
    /\ alive
    /\ s \notin DOMAIN thread_stats
    /\ IF s[2] = 1 THEN TRUE ELSE <<s[1], s[2] - 1>> \in svc_called
    /\ ~wait_handles_locked
    /\ svc_called' = svc_called \cup {s}
    /\ IF wait_handles # None
       THEN /\ cs_lock = Free
            /\ thread_stats' = register_thread_stats(s)
            /\ svc_started' = svc_started \cup {s}
       ELSE UNCHANGED <<thread_stats, svc_started>>
    /\ UNCHANGED <<status, status_log, term_flag, shutdown_fn, wait_handles,
                   join_queue, registry, cs_lock, main_pc, pc, marked, last_sync,
                   ran, late, hook_calls, os, spawn_error, ctx_vars, stats_ch,
                   stats_cur, dropped, sent, resets, busy, io_vars>>

\* seeded fault: the Err of the registration is logged instead of unwrapped,
\* and spawn goes on to start the thread and to keep its handle
spawn_busy_logged(t) ==
    /\ alive
    /\ Kind(t) # "S" => status \in {Inactive, Starting}
    /\ t \in DOMAIN thread_stats
    /\ wait_handles # None
    /\ ~wait_handles_locked
    /\ cs_lock = Free
    /\ IF Kind(t) = "O"
       THEN /\ output_threads_stopped' = insert(output_threads_stopped, t, FALSE)
            /\ outputs_stopped' = FALSE
       ELSE UNCHANGED <<output_threads_stopped, outputs_stopped>>
    /\ busy' = Some(t)
    /\ wait_handles' = IF Kind(t) \in {"I", "P"}
                       THEN Some(Append(wait_handles[1], t))
                       ELSE wait_handles
    /\ UNCHANGED <<status, status_log, term_flag, shutdown_fn,
                   join_queue, input_threads_ready, inputs_ready,
                   program_threads_ready, programs_ready, cs_lock, main_pc, pc,
                   marked, last_sync, ran, late, hook_calls, os,
                   spawn_error, ctx_vars, thread_stats, stats_ch,
                   stats_cur, dropped, sent, resets, svc_called, svc_started,
                   io_vars>>

\* spawn(name, kind, f) called by any thread with a name that is registered
\* already.  register_input_thread, register_program_thread and
\* register_service_thread call register_thread_stats first and return its
\* Err(busy); register_output_thread inserts (name, false) into
\* output_threads_stopped and clears outputs_stopped before it calls
\* register_thread_stats.  spawn unwraps the Err: the panic hook set by init
\* prints the message and calls process::exit(1).
spawn_busy(t) ==
    /\ alive
    /\ Kind(t) # "S" => status \in {Inactive, Starting}
    /\ t \in DOMAIN thread_stats
    /\ wait_handles # None
    /\ ~wait_handles_locked
    /\ cs_lock = Free
    /\ IF Kind(t) = "O"
       THEN /\ output_threads_stopped' = insert(output_threads_stopped, t, FALSE)
            /\ outputs_stopped' = FALSE
       ELSE UNCHANGED <<output_threads_stopped, outputs_stopped>>
    /\ busy' = Some(t)
    /\ exit_code' = Some(1)
    /\ UNCHANGED <<status, status_log, term_flag, shutdown_fn, wait_handles,
                   join_queue, input_threads_ready, inputs_ready,
                   program_threads_ready, programs_ready, cs_lock, main_pc, pc,
                   marked, last_sync, ran, late, hook_calls, watchdog, pid_file,
                   socket, spawn_error, ctx_vars, thread_stats, stats_ch,
                   stats_cur, dropped, sent, resets, svc_called, svc_started,
                   io_vars>>

\* on_shutdown(f): the cell is write-once (a second call panics)
on_shutdown ==
    /\ alive
    /\ main_pc = "setup"
    /\ ~shutdown_fn
    /\ shutdown_fn' = TRUE
    /\ UNCHANGED <<status, status_log, term_flag, wait_handles, join_queue,
                   registry, cs_lock, main_pc, pc, marked, last_sync, ran,
                   late, hook_calls, os, spawn_error, ctx_vars, thread_stats, aux>>

\* ------------------------------------------------------- the main thread
main_locals ==
    /\ alive
    /\ UNCHANGED <<term_flag, shutdown_fn, pc, marked, last_sync, ran, late,
                   spawn_error, ctx_vars, aux>>

main_frame == main_locals /\ UNCHANGED <<os, thread_stats>>

\* run(): tasks::set_starting(), then register_signals()
set_starting ==
    /\ main_pc = "setup"
    /\ IF status # Stopping THEN set_status(Starting) ELSE no_status
    /\ main_pc' = "launch"
    /\ main_frame
    /\ UNCHANGED <<wait_handles, join_queue, registry, cs_lock, hook_calls>>

\* run(): launch_datasync() has returned; tasks::set_syncing()
set_syncing ==
    /\ main_pc = "launch"
    /\ IF status # Stopping THEN set_status(Syncing) ELSE no_status
    /\ main_pc' = "preparing_if_no_inputs"
    /\ main_frame
    /\ UNCHANGED <<wait_handles, join_queue, registry, cs_lock, hook_calls>>

\* seeded fault: run() leaves the Preparing store to the Input threads
set_preparing_never ==
    /\ main_pc = "preparing_if_no_inputs"
    /\ cs_lock = Free
    /\ no_status
    /\ main_pc' = "active_if_none"
    /\ main_frame
    /\ UNCHANGED <<wait_handles, join_queue, registry, cs_lock, hook_calls>>

\* set_preparing_if_no_inputs: the registry guard is a temporary of the
\* condition, so the mutex is free again when the status is stored
set_preparing_if_no_inputs ==
    /\ main_pc = "preparing_if_no_inputs"
    /\ cs_lock = Free
    /\ IF is_empty(input_threads_ready) THEN set_status(Preparing) ELSE no_status
    /\ main_pc' = "active_if_none"
    /\ main_frame
    /\ UNCHANGED <<wait_handles, join_queue, registry, cs_lock, hook_calls>>

\* seeded fault: Active is stored when no Program is registered, whether or
\* not an Input is
set_active_if_no_programs ==
    /\ main_pc = "active_if_none"
    /\ cs_lock = Free
    /\ IF is_empty(program_threads_ready) THEN set_status(Active) ELSE no_status
    /\ pid_file' = TRUE
    /\ socket' = TRUE
    /\ main_pc' = "poll"
    /\ main_locals
    /\ thread_stats' = register_thread_stats(ApiName)
    /\ UNCHANGED <<wait_handles, join_queue, registry, cs_lock, hook_calls,
                   exit_code, watchdog>>

\* set_active_if_no_inputs_and_programs: the guard cs lives across the store.
\* run() then writes the pid file, and spawn_api binds the socket.
set_active_if_no_inputs_and_programs ==
    /\ main_pc = "active_if_none"
    /\ cs_lock = Free
    /\ IF is_empty(program_threads_ready) /\ is_empty(input_threads_ready)
       THEN set_status(Active)
       ELSE no_status
    /\ pid_file' = TRUE
    /\ socket' = TRUE
    /\ main_pc' = "poll"
    /\ main_locals
    /\ thread_stats' = register_thread_stats(ApiName)
    /\ UNCHANGED <<wait_handles, join_queue, registry, cs_lock, hook_calls,
                   exit_code, watchdog>>

\* a SIGTERM / SIGINT after register_signals(): the handler sets the flag
signal ==
    /\ alive
    /\ main_pc \notin {"setup", "done"}
    /\ ~term_flag
    /\ term_flag' = TRUE
    /\ UNCHANGED <<status, status_log, shutdown_fn, wait_handles, join_queue,
                   registry, cs_lock, main_pc, pc, marked, last_sync, ran,
                   late, hook_calls, os, spawn_error, ctx_vars, thread_stats, aux>>

\* seeded fault: run() does not start the stop_timeout thread
sigterm_received_no_watchdog ==
    /\ main_pc = "poll"
    /\ term_flag
    /\ main_pc' = "check_active"
    /\ watchdog' = FALSE
    /\ no_status
    /\ main_locals
    /\ UNCHANGED thread_stats
    /\ UNCHANGED <<wait_handles, join_queue, registry, cs_lock, hook_calls,
                   exit_code, pid_file, socket>>

\* run(): `while !sigterm_received()` ends, and spawn0 starts the thread
\* that sleeps stop_timeout and panics
sigterm_received ==
    /\ main_pc = "poll"
    /\ term_flag
    /\ main_pc' = "check_active"
    /\ watchdog' = TRUE
    /\ no_status
    /\ main_locals
    /\ UNCHANGED thread_stats
    /\ UNCHANGED <<wait_handles, join_queue, registry, cs_lock, hook_calls,
                   exit_code, pid_file, socket>>

\* seeded fault: the orderly shutdown is also taken from Preparing
run_check_not_syncing ==
    /\ main_pc = "check_active"
    /\ main_pc' = IF status >= Preparing THEN "shutdown" ELSE "set_stopped"
    /\ no_status
    /\ main_frame
    /\ UNCHANGED <<wait_handles, join_queue, registry, cs_lock, hook_calls>>

\* seeded fault: the orderly shutdown is taken whatever the status is
run_check_none ==
    /\ main_pc = "check_active"
    /\ main_pc' = "shutdown"
    /\ no_status
    /\ main_frame
    /\ UNCHANGED <<wait_handles, join_queue, registry, cs_lock, hook_calls>>

\* run(): `if tasks::status() == Active { shutdown ... } else { set_stopped() }`
\* the read of the status
run_check_active ==
    /\ main_pc = "check_active"
    /\ main_pc' = IF status = Active THEN "shutdown" ELSE "set_stopped"
    /\ no_status
    /\ main_frame
    /\ UNCHANGED <<wait_handles, join_queue, registry, cs_lock, hook_calls>>

\* run(): the else branch, tasks::set_stopped(); then
\* fs::remove_file(pid_file) (no other thread looks at the file, so the
\* removal is part of this step)
set_stopped ==
    /\ main_pc = "set_stopped"
    /\ set_status(Stopped)
    /\ pid_file' = FALSE
    /\ main_pc' = "cleanup"
    /\ main_locals
    /\ UNCHANGED thread_stats
    /\ UNCHANGED <<wait_handles, join_queue, registry, cs_lock, hook_calls,
                   exit_code, watchdog, socket>>

\* shutdown(): set_status(Stopping)
shutdown_set_stopping ==
    /\ main_pc = "shutdown"
    /\ set_status(Stopping)
    /\ main_pc' = "take_handles"
    /\ main_frame
    /\ UNCHANGED <<wait_handles, join_queue, registry, cs_lock, hook_calls>>

\* seeded fault: the hook is called without joining the handles first
shutdown_take_handles_no_join ==
    /\ main_pc = "take_handles"
    /\ wait_handles' = None
    /\ main_pc' = IF wait_handles # None /\ shutdown_fn
                  THEN "hook"
                  ELSE "set_stop_syncing"
    /\ join_queue' = join_queue
    /\ no_status
    /\ main_frame
    /\ UNCHANGED <<registry, cs_lock, hook_calls>>

\* shutdown(): WAIT_HANDLES.lock().take(); the handles are joined only
\* inside `if let Some(f) = SHUTDOWN_FN.get()`
shutdown_take_handles ==
    /\ main_pc = "take_handles"
    /\ wait_handles' = None
    /\ IF wait_handles # None /\ shutdown_fn
       THEN /\ join_queue' = wait_handles[1]
            /\ main_pc' = "join"
       ELSE /\ join_queue' = join_queue
            /\ main_pc' = "set_stop_syncing"
    /\ no_status
    /\ main_frame
    /\ UNCHANGED <<registry, cs_lock, hook_calls>>

\* seeded fault: join returns at once, whether or not the thread has finished
shutdown_join_no_wait ==
    /\ main_pc = "join"
    /\ IF join_queue = <<>>
       THEN /\ main_pc' = "hook"
            /\ join_queue' = join_queue
       ELSE /\ join_queue' = Tail(join_queue)
            /\ main_pc' = main_pc
    /\ no_status
    /\ main_frame
    /\ UNCHANGED <<wait_handles, registry, cs_lock, hook_calls>>

\* shutdown(): `for handle in wait_handles { handle.join() }`: join returns
\* when the thread has finished
shutdown_join ==
    /\ main_pc = "join"
    /\ IF join_queue = <<>>
       THEN /\ main_pc' = "hook"
            /\ join_queue' = join_queue
       ELSE /\ pc[Head(join_queue)] = "done"
            /\ join_queue' = Tail(join_queue)
            /\ main_pc' = main_pc
    /\ no_status
    /\ main_frame
    /\ UNCHANGED <<wait_handles, registry, cs_lock, hook_calls>>

\* shutdown(): f() is called ...
shutdown_hook_call ==
    /\ main_pc = "hook"
    /\ hook_calls' = hook_calls + 1
    /\ main_pc' = "hook_running"
    /\ no_status
    /\ main_frame
    /\ UNCHANGED <<wait_handles, join_queue, registry, cs_lock>>

\* ... and returns
shutdown_hook_return ==
    /\ main_pc = "hook_running"
    /\ main_pc' = "set_stop_syncing"
    /\ no_status
    /\ main_frame
    /\ UNCHANGED <<wait_handles, join_queue, registry, cs_lock, hook_calls>>

\* shutdown(): set_status(StopSyncing)
shutdown_set_stop_syncing ==
    /\ main_pc = "set_stop_syncing"
    /\ set_status(StopSyncing)
    /\ main_pc' = "after_shutdown"
    /\ main_frame
    /\ UNCHANGED <<wait_handles, join_queue, registry, cs_lock, hook_calls>>

\* run(): `if tasks::status() != Stopped { stop_datasync(); }`
run_after_shutdown ==
    /\ main_pc = "after_shutdown"
    /\ main_pc' = IF status # Stopped THEN "stop_datasync" ELSE "wait_stopped"
    /\ no_status
    /\ main_frame
    /\ UNCHANGED <<wait_handles, join_queue, registry, cs_lock, hook_calls>>

\* seeded fault: Stopped is stored whether or not Outputs still have to flush
stop_always ==
    /\ main_pc = "stop_datasync"
    /\ cs_lock = Free
    /\ set_status(Stopped)
    /\ main_pc' = "wait_stopped"
    /\ main_frame
    /\ UNCHANGED <<wait_handles, join_queue, registry, cs_lock, hook_calls>>

\* stop_datasync() of the generated code is stop_if_no_output_or_sfn()
stop_if_no_output_or_sfn ==
    /\ main_pc = "stop_datasync"
    /\ cs_lock = Free
    /\ IF is_empty(output_threads_stopped) \/ ~shutdown_fn
       THEN set_status(Stopped)
       ELSE no_status
    /\ main_pc' = "wait_stopped"
    /\ main_frame
    /\ UNCHANGED <<wait_handles, join_queue, registry, cs_lock, hook_calls>>

\* run(): `while tasks::status() != Stopped { step_sleep() }` ends; then
\* fs::remove_file(pid_file)
run_wait_stopped ==
    /\ main_pc = "wait_stopped"
    /\ status = Stopped
    /\ pid_file' = FALSE
    /\ main_pc' = "cleanup"
    /\ no_status
    /\ main_locals
    /\ UNCHANGED thread_stats
    /\ UNCHANGED <<wait_handles, join_queue, registry, cs_lock, hook_calls,
                   exit_code, watchdog, socket>>

\* run(): fs::remove_file(socket_path); run() returns to main, which returns:
\* the process exits with code 0
run_cleanup ==
    /\ main_pc = "cleanup"
    /\ socket' = FALSE
    /\ exit_code' = Some(0)
    /\ main_pc' = "done"
    /\ no_status
    /\ main_locals
    /\ UNCHANGED thread_stats
    /\ UNCHANGED <<wait_handles, join_queue, registry, cs_lock, hook_calls,
                   watchdog, pid_file>>

\* seeded fault: the panic hook removes the files before it exits
watchdog_fire_cleans ==
    /\ alive
    /\ watchdog
    /\ exit_code' = Some(1)
    /\ pid_file' = FALSE
    /\ socket' = FALSE
    /\ UNCHANGED <<status, status_log, term_flag, shutdown_fn, wait_handles,
                   join_queue, registry, cs_lock, main_pc, pc, marked, last_sync,
                   ran, late, hook_calls, watchdog, spawn_error, ctx_vars, thread_stats, aux>>

\* the stop_timeout thread: its sleep ends and it panics; the panic hook set
\* by init prints the message and calls process::exit(1)
watchdog_fire ==
    /\ alive
    /\ watchdog
    /\ exit_code' = Some(1)
    /\ UNCHANGED <<status, status_log, term_flag, shutdown_fn, wait_handles,
                   join_queue, registry, cs_lock, main_pc, pc, marked, last_sync,
                   ran, late, hook_calls, watchdog, pid_file, socket,
                   spawn_error, ctx_vars, thread_stats, aux>>

\* ------------------------------------------------------ the loop threads
thread_frame ==
    /\ alive
    /\ UNCHANGED <<term_flag, shutdown_fn, wait_handles, join_queue, main_pc,
                   hook_calls, os, spawn_error, ctx_vars, thread_stats, aux>>

shutdown_began == \E i \in DOMAIN status_log : status_log[i] < 0

\* ghost: a body execution begun after the shutdown began is counted
count_late(t) ==
    IF shutdown_began /\ late[t] < MaxLate
    THEN [late EXCEPT ![t] = late[t] + 1]
    ELSE late

\* Loop::prepare: wait_can_run_input / _program / _output, then the Loop is
\* built with marked = task_kind.is_none() (task_kind is None for an Output)
prepare(t) ==
    /\ pc[t] = "gate"
    /\ can_run(t)
    /\ pc' = [pc EXCEPT ![t] = "top"]
    /\ marked' = [marked EXCEPT ![t] = (Kind(t) = "O")]
    /\ no_status
    /\ thread_frame
    /\ UNCHANGED <<registry, cs_lock, last_sync, ran, late>>

\* spawn_loop, Input branch: log_running(); f() is entered
input_body_begin(t) ==
    /\ Kind(t) = "I"
    /\ pc[t] = "top"
    /\ pc' = [pc EXCEPT ![t] = "body"]
    /\ late' = count_late(t)
    /\ no_status
    /\ thread_frame
    /\ UNCHANGED <<registry, cs_lock, marked, last_sync, ran>>

\* spawn_program_loop: `if status() >= Preparing { prog(); }`
program_body_begin(t) ==
    /\ Kind(t) = "P"
    /\ pc[t] = "top"
    /\ IF status >= Preparing
       THEN /\ pc' = [pc EXCEPT ![t] = "body"]
            /\ late' = count_late(t)
            /\ ran' = ran
       ELSE /\ pc' = [pc EXCEPT ![t] = "need_stop"]
            /\ late' = late
            /\ ran' = [ran EXCEPT ![t] = TRUE]
    /\ no_status
    /\ thread_frame
    /\ UNCHANGED <<registry, cs_lock, marked, last_sync>>

\* spawn_loop, Output branch: `let last_sync = output_last_sync(); f()` is
\* entered
output_body_begin(t) ==
    /\ Kind(t) = "O"
    /\ pc[t] = "top"
    /\ last_sync' = [last_sync EXCEPT ![t] = output_last_sync]
    /\ pc' = [pc EXCEPT ![t] = "body"]
    /\ no_status
    /\ thread_frame
    /\ UNCHANGED <<registry, cs_lock, marked, ran, late>>

\* seeded fault: an Output loop breaks after any iteration
body_return_break(t) ==
    /\ pc[t] = "body"
    /\ pc' = [pc EXCEPT ![t] = IF Kind(t) = "O" THEN "mark_stopped" ELSE "need_stop"]
    /\ ran' = [ran EXCEPT ![t] = TRUE]
    /\ no_status
    /\ thread_frame
    /\ UNCHANGED <<registry, cs_lock, marked, last_sync, late>>

\* the body returns; an Output loop then tests its last_sync and, when it
\* goes on, calls int.tick(): for an Output the tick is only the sleep to
\* the deadline, after which the next iteration starts
body_return(t) ==
    /\ pc[t] = "body"
    /\ pc' = [pc EXCEPT ![t] =
                IF Kind(t) = "O"
                THEN (IF last_sync[t] THEN "mark_stopped" ELSE "top")
                ELSE "need_stop"]
    /\ ran' = [ran EXCEPT ![t] = TRUE]
    /\ no_status
    /\ thread_frame
    /\ UNCHANGED <<registry, cs_lock, marked, last_sync, late>>

\* Input / Program loop: `if need_stop(kind) { break; } int.tick();`
\* The first tick marks the thread ready (pc "tick"); every later tick is
\* only the sleep to the deadline, after which the next iteration starts.
loop_need_stop(t) ==
    /\ Kind(t) \in {"I", "P"}
    /\ pc[t] = "need_stop"
    /\ pc' = [pc EXCEPT ![t] =
                IF need_stop(Kind(t)) THEN "done"
                ELSE IF marked[t] THEN "top" ELSE "tick"]
    /\ no_status
    /\ thread_frame
    /\ UNCHANGED <<registry, cs_lock, marked, last_sync, ran, late>>

\* seeded fault: the table is not scanned, the first Input to tick advances the
\* status
mark_input_thread_ready_no_scan(t) ==
    /\ Kind(t) = "I"
    /\ pc[t] = "tick"
    /\ ~marked[t]
    /\ cs_lock = Free
    /\ IF ~inputs_ready /\ status >= Syncing
       THEN /\ input_threads_ready' = insert(input_threads_ready, t, TRUE)
            /\ inputs_ready' = TRUE
            /\ cs_lock' = t
            /\ pc' = [pc EXCEPT ![t] = "set_preparing"]
            /\ marked' = marked
       ELSE /\ marked' = [marked EXCEPT ![t] = TRUE]
            /\ pc' = [pc EXCEPT ![t] = "top"]
            /\ UNCHANGED <<input_threads_ready, inputs_ready, cs_lock>>
    /\ no_status
    /\ thread_frame
    /\ UNCHANGED <<program_threads_ready, programs_ready, output_threads_stopped,
                   outputs_stopped, last_sync, ran, late>>

\* Loop::tick, first call of an Input thread: mark_input_thread_ready takes
\* the registry mutex, reads the status, inserts and scans the table.  When
\* every entry is true it goes on to the stores, holding the mutex.  On
\* return tick sets marked and sleeps to the deadline.
mark_input_thread_ready(t) ==
    /\ Kind(t) = "I"
    /\ pc[t] = "tick"
    /\ ~marked[t]
    /\ cs_lock = Free
    /\ IF ~inputs_ready /\ status >= Syncing
       THEN LET tbl == insert(input_threads_ready, t, TRUE) IN
            /\ input_threads_ready' = tbl
            /\ IF AllTrue(tbl)
               THEN /\ inputs_ready' = TRUE
                    /\ cs_lock' = t
                    /\ pc' = [pc EXCEPT ![t] = "set_preparing"]
                    /\ marked' = marked
               ELSE /\ inputs_ready' = inputs_ready
                    /\ cs_lock' = cs_lock
                    /\ pc' = [pc EXCEPT ![t] = "top"]
                    /\ marked' = [marked EXCEPT ![t] = TRUE]
       ELSE /\ marked' = [marked EXCEPT ![t] = TRUE]
            /\ pc' = [pc EXCEPT ![t] = "top"]
            /\ UNCHANGED <<input_threads_ready, inputs_ready, cs_lock>>
    /\ no_status
    /\ thread_frame
    /\ UNCHANGED <<program_threads_ready, programs_ready, output_threads_stopped,
                   outputs_stopped, last_sync, ran, late>>

\* mark_input_thread_ready: set_status(Preparing)
mark_input_set_preparing(t) ==
    /\ Kind(t) = "I"
    /\ pc[t] = "set_preparing"
    /\ set_status(Preparing)
    /\ IF is_empty(program_threads_ready)
       THEN /\ pc' = [pc EXCEPT ![t] = "set_active"]
            /\ UNCHANGED <<cs_lock, marked>>
       ELSE /\ pc' = [pc EXCEPT ![t] = "top"]
            /\ cs_lock' = Free
            /\ marked' = [marked EXCEPT ![t] = TRUE]
    /\ thread_frame
    /\ UNCHANGED <<registry, last_sync, ran, late>>

\* mark_input_thread_ready: `if program_threads_ready.is_empty()
\* { set_status(Active) }`, the mutex is released on return
mark_input_set_active(t) ==
    /\ Kind(t) = "I"
    /\ pc[t] = "set_active"
    /\ set_status(Active)
    /\ pc' = [pc EXCEPT ![t] = "top"]
    /\ cs_lock' = Free
    /\ marked' = [marked EXCEPT ![t] = TRUE]
    /\ thread_frame
    /\ UNCHANGED <<registry, last_sync, ran, late>>

\* Loop::tick, first call of a Program thread: mark_program_thread_ready
mark_program_thread_ready(t) ==
    /\ Kind(t) = "P"
    /\ pc[t] = "tick"
    /\ ~marked[t]
    /\ cs_lock = Free
    /\ IF ~programs_ready /\ status >= Preparing
       THEN LET tbl == insert(program_threads_ready, t, TRUE) IN
            /\ program_threads_ready' = tbl
            /\ IF AllTrue(tbl)
               THEN /\ programs_ready' = TRUE
                    /\ cs_lock' = t
                    /\ pc' = [pc EXCEPT ![t] = "set_active"]
                    /\ marked' = marked
               ELSE /\ programs_ready' = programs_ready
                    /\ cs_lock' = cs_lock
                    /\ pc' = [pc EXCEPT ![t] = "top"]
                    /\ marked' = [marked EXCEPT ![t] = TRUE]
       ELSE /\ marked' = [marked EXCEPT ![t] = TRUE]
            /\ pc' = [pc EXCEPT ![t] = "top"]
            /\ UNCHANGED <<program_threads_ready, programs_ready, cs_lock>>
    /\ no_status
    /\ thread_frame
    /\ UNCHANGED <<input_threads_ready, inputs_ready, output_threads_stopped,
                   outputs_stopped, last_sync, ran, late>>

\* seeded fault: the last Program to become ready does not store Active
mark_program_no_store(t) ==
    /\ Kind(t) = "P"
    /\ pc[t] = "set_active"
    /\ no_status
    /\ pc' = [pc EXCEPT ![t] = "top"]
    /\ cs_lock' = Free
    /\ marked' = [marked EXCEPT ![t] = TRUE]
    /\ thread_frame
    /\ UNCHANGED <<registry, last_sync, ran, late>>

\* mark_program_thread_ready: set_status(Active), the mutex is released
mark_program_set_active(t) ==
    /\ Kind(t) = "P"
    /\ pc[t] = "set_active"
    /\ set_status(Active)
    /\ pc' = [pc EXCEPT ![t] = "top"]
    /\ cs_lock' = Free
    /\ marked' = [marked EXCEPT ![t] = TRUE]
    /\ thread_frame
    /\ UNCHANGED <<registry, last_sync, ran, late>>

\* Output loop after its break: mark_output_thread_stopped takes the
\* registry mutex, inserts and scans the table
mark_output_thread_stopped(t) ==
    /\ Kind(t) = "O"
    /\ pc[t] = "mark_stopped"
    /\ cs_lock = Free
    /\ IF ~outputs_stopped
       THEN LET tbl == insert(output_threads_stopped, t, TRUE) IN
            /\ output_threads_stopped' = tbl
            /\ IF AllTrue(tbl)
               THEN /\ outputs_stopped' = TRUE
                    /\ cs_lock' = t
                    /\ pc' = [pc EXCEPT ![t] = "set_stopped"]
               ELSE /\ outputs_stopped' = outputs_stopped
                    /\ cs_lock' = cs_lock
                    /\ pc' = [pc EXCEPT ![t] = "done"]
       ELSE /\ pc' = [pc EXCEPT ![t] = "done"]
            /\ UNCHANGED <<output_threads_stopped, outputs_stopped, cs_lock>>
    /\ no_status
    /\ thread_frame
    /\ UNCHANGED <<input_threads_ready, inputs_ready, program_threads_ready,
                   programs_ready, marked, last_sync, ran, late>>

\* mark_output_thread_stopped: set_status(Stopped), the mutex is released
mark_output_set_stopped(t) ==
    /\ Kind(t) = "O"
    /\ pc[t] = "set_stopped"
    /\ set_status(Stopped)
    /\ pc' = [pc EXCEPT ![t] = "done"]
    /\ cs_lock' = Free
    /\ thread_frame
    /\ UNCHANGED <<registry, marked, last_sync, ran, late>>

\* ------------------------------------------------------- specification
MainStep ==
    \/ set_starting
    \/ set_syncing
    \/ set_preparing_if_no_inputs
    \/ set_active_if_no_inputs_and_programs
    \/ sigterm_received
    \/ run_check_active
    \/ set_stopped
    \/ shutdown_set_stopping
    \/ shutdown_take_handles
    \/ shutdown_join
    \/ shutdown_hook_call
    \/ shutdown_hook_return
    \/ shutdown_set_stop_syncing
    \/ run_after_shutdown
    \/ stop_if_no_output_or_sfn
    \/ run_wait_stopped
    \/ run_cleanup

ThreadStep(t) ==
    \/ prepare(t)
    \/ input_body_begin(t)
    \/ program_body_begin(t)
    \/ output_body_begin(t)
    \/ body_return(t)
    \/ loop_need_stop(t)
    \/ mark_input_thread_ready(t)
    \/ mark_input_set_preparing(t)
    \/ mark_input_set_active(t)
    \/ mark_program_thread_ready(t)
    \/ mark_program_set_active(t)
    \/ mark_output_thread_stopped(t)
    \/ mark_output_set_stopped(t)

Next ==
    \/ \E t \in Threads : spawn(t)
    \/ on_shutdown
    \/ signal
    \/ MainStep
    \/ \E t \in Threads : ThreadStep(t)

Spec == Init /\ [][Next]_vars

\* Every thread of the process is scheduled again and again, and a body or
\* hook that is running returns.  (In Spec and FairSpec the shutdown takes
\* less than stop_timeout: the sleep of the watchdog thread does not end.)
FairSpec ==
    /\ Spec
    /\ WF_vars(MainStep)
    /\ \A t \in Threads : WF_vars(ThreadStep(t))

\* ------------------------------------------------- the steps of the gate
\* wait_can_run_input / _program / _output:
\*   while !can_run_*() {
\*       let mut lock = STATUS_MUTEX.lock();
\*       let _ = STATUS_CHANGED.wait_for(&mut lock, WAIT_STEP);
\*   }
\* The test reads the atomic STATUS without the mutex.  set_status stores
\* and notifies under the mutex in one step; a notify_all reaches the
\* threads that are in wait_for at that moment.  status_log has one entry
\* per set_status, so a thread that began its wait when the log had `seen`
\* entries has been notified when the log is longer.

gate_frame ==
    /\ alive
    /\ no_status
    /\ UNCHANGED <<term_flag, shutdown_fn, wait_handles, join_queue, main_pc,
                   hook_calls, os, spawn_error, registry, cs_lock, last_sync,
                   ran, late, ctx_vars, thread_stats, stats_ch, stats_cur,
                   dropped, sent, resets, svc_called, svc_started, busy,
                   loop_vars, api_vars, eapi_vars, mb>>

\* the test of the `while`: with the predicate true the function returns and
\* Loop::prepare builds the Loop
gate_check(t) ==
    /\ pc[t] = "gate"
    /\ gate[t].pc = "check"
    /\ IF can_run(t)
       THEN /\ pc' = [pc EXCEPT ![t] = "top"]
            /\ marked' = [marked EXCEPT ![t] = (Kind(t) = "O")]
            /\ UNCHANGED gate
       ELSE /\ gate' = [gate EXCEPT ![t].pc = "lock"]
            /\ UNCHANGED <<pc, marked>>
    /\ gate_frame

\* STATUS_MUTEX.lock() and the start of wait_for; a notify_all made between
\* the test and this step does not reach the thread
gate_wait_for(t) ==
    /\ pc[t] = "gate"
    /\ gate[t].pc = "lock"
    /\ status_mutex = Free
    /\ gate' = [gate EXCEPT ![t].pc = "wait", ![t].seen = Len(status_log)]
    /\ gate_frame
    /\ UNCHANGED <<pc, marked>>

\* C36 seeded fault: STATUS_CHANGED.wait, without a timeout
gate_wake_notified(t) ==
    /\ pc[t] = "gate"
    /\ gate[t].pc = "wait"
    /\ Len(status_log) > gate[t].seen
    /\ gate' = [gate EXCEPT ![t] = AtCheck]
    /\ gate_frame
    /\ UNCHANGED <<pc, marked>>

\* wait_for returns: after a notify_all, or when WAIT_STEP has passed; it
\* takes the mutex again, and the guard is dropped at the end of the loop body
gate_wake(t) ==
    /\ pc[t] = "gate"
    /\ gate[t].pc = "wait"
    /\ status_mutex = Free
    /\ gate' = [gate EXCEPT ![t] = AtCheck]
    /\ gate_frame
    /\ UNCHANGED <<pc, marked>>

GateStep(t) ==
    \/ gate_check(t)
    \/ gate_wait_for(t)
    \/ gate_wake(t)
    \/ input_body_begin(t)
    \/ program_body_begin(t)
    \/ output_body_begin(t)
    \/ body_return(t)
    \/ loop_need_stop(t)
    \/ mark_input_thread_ready(t)
    \/ mark_input_set_preparing(t)
    \/ mark_input_set_active(t)
    \/ mark_program_thread_ready(t)
    \/ mark_program_set_active(t)
    \/ mark_output_thread_stopped(t)
    \/ mark_output_set_stopped(t)

\* The kernel with the steps of wait_can_run_* in the place of prepare.
GateNext ==
    \/ \E t \in Threads : spawn(t)
    \/ on_shutdown
    \/ signal
    \/ MainStep
    \/ \E t \in Threads : GateStep(t)

GateSpec == Init /\ [][GateNext]_vars

GateFairSpec ==
    /\ GateSpec
    /\ WF_vars(MainStep)
    /\ \A t \in Threads : WF_vars(GateStep(t))

\* ------------------------------------------------- the two mutexes
\* The lock operations of the lifecycle functions as steps of their own:
\* STATUS_MUTEX.lock() and wait_for in wait_can_run_*, and the registry
\* guards of the helpers that run() calls.

\* wait_can_run_*: `let mut lock = STATUS_MUTEX.lock()`
status_mutex_lock(t) ==
    /\ pc[t] = "gate"
    /\ gate[t].pc = "lock"
    /\ status_mutex = Free
    /\ gate' = [gate EXCEPT ![t].pc = "locked"]
    /\ gate_frame
    /\ UNCHANGED <<pc, marked>>

\* C38 seeded fault: the thread reads the registry before it waits, with the
\* status mutex held
status_changed_wait_for_registry(t) ==
    /\ pc[t] = "gate"
    /\ gate[t].pc = "locked"
    /\ cs_lock = Free
    /\ gate' = [gate EXCEPT ![t].pc = "wait"]
    /\ gate_frame
    /\ UNCHANGED <<pc, marked>>

\* wait_can_run_*: `STATUS_CHANGED.wait_for(&mut lock, WAIT_STEP)` releases
\* the mutex and waits
status_changed_wait_for(t) ==
    /\ pc[t] = "gate"
    /\ gate[t].pc = "locked"
    /\ gate' = [gate EXCEPT ![t].pc = "wait"]
    /\ gate_frame
    /\ UNCHANGED <<pc, marked>>

\* set_preparing_if_no_inputs, the condition:
\* `CONTROLLER_STATS.lock().input_threads_ready.is_empty()`; the guard is a
\* temporary of the condition and is dropped at its end
set_preparing_condition ==
    /\ main_pc = "preparing_if_no_inputs"
    /\ cs_lock = Free
    /\ main_pc' = IF is_empty(input_threads_ready)
                  THEN "store_preparing"
                  ELSE "active_if_none"
    /\ no_status
    /\ main_frame
    /\ UNCHANGED <<wait_handles, join_queue, registry, cs_lock, hook_calls>>

\* set_preparing_if_no_inputs, the block: set_status(Preparing)
set_preparing_store ==
    /\ main_pc = "store_preparing"
    /\ set_status(Preparing)
    /\ main_pc' = "active_if_none"
    /\ main_frame
    /\ UNCHANGED <<wait_handles, join_queue, registry, cs_lock, hook_calls>>

\* set_active_if_no_inputs_and_programs: `let cs = CONTROLLER_STATS.lock()`
set_active_lock ==
    /\ main_pc = "active_if_none"
    /\ cs_lock = Free
    /\ cs_lock' = MainName
    /\ main_pc' = "active_locked"
    /\ no_status
    /\ main_frame
    /\ UNCHANGED <<wait_handles, join_queue, registry, hook_calls>>

\* set_active_if_no_inputs_and_programs: the test and set_status(Active)
\* under the guard cs, which is dropped on return.  run() then writes the
\* pid file, and spawn_api binds the socket.
set_active_store ==
    /\ main_pc = "active_locked"
    /\ IF is_empty(program_threads_ready) /\ is_empty(input_threads_ready)
       THEN set_status(Active)
       ELSE no_status
    /\ cs_lock' = Free
    /\ pid_file' = TRUE
    /\ socket' = TRUE
    /\ main_pc' = "poll"
    /\ main_locals
    /\ thread_stats' = register_thread_stats(ApiName)
    /\ UNCHANGED <<wait_handles, join_queue, registry, hook_calls, exit_code,
                   watchdog>>

\* stop_if_no_output_or_sfn, the condition:
\* `CONTROLLER_STATS.lock().output_threads_stopped.is_empty()
\*  || SHUTDOWN_FN.get().is_none()`; the guard is dropped at its end
stop_condition ==
    /\ main_pc = "stop_datasync"
    /\ cs_lock = Free
    /\ main_pc' = IF is_empty(output_threads_stopped) \/ ~shutdown_fn
                  THEN "store_stopped"
                  ELSE "wait_stopped"
    /\ no_status
    /\ main_frame
    /\ UNCHANGED <<wait_handles, join_queue, registry, cs_lock, hook_calls>>

\* stop_if_no_output_or_sfn, the block: set_status(Stopped)
stop_store ==
    /\ main_pc = "store_stopped"
    /\ set_status(Stopped)
    /\ main_pc' = "wait_stopped"
    /\ main_frame
    /\ UNCHANGED <<wait_handles, join_queue, registry, cs_lock, hook_calls>>

\* the stores of a thread that holds the registry: mark_input_thread_ready,
\* mark_program_thread_ready and mark_output_thread_stopped
MarkStore(t) ==
    \/ mark_input_set_preparing(t)
    \/ mark_input_set_active(t)
    \/ mark_program_set_active(t)
    \/ mark_output_set_stopped(t)

LockMainStep ==
    \/ set_starting
    \/ set_syncing
    \/ set_preparing_condition
    \/ set_preparing_store
    \/ set_active_lock
    \/ set_active_store
    \/ sigterm_received
    \/ run_check_active
    \/ set_stopped
    \/ shutdown_set_stopping
    \/ shutdown_take_handles
    \/ shutdown_join
    \/ shutdown_hook_call
    \/ shutdown_hook_return
    \/ shutdown_set_stop_syncing
    \/ run_after_shutdown
    \/ stop_condition
    \/ stop_store
    \/ run_wait_stopped
    \/ run_cleanup

LockStep(t) ==
    \/ gate_check(t)
    \/ status_mutex_lock(t)
    \/ status_changed_wait_for(t)
    \/ gate_wake(t)
    \/ input_body_begin(t)
    \/ program_body_begin(t)
    \/ output_body_begin(t)
    \/ body_return(t)
    \/ loop_need_stop(t)
    \/ mark_input_thread_ready(t)
    \/ MarkStore(t)
    \/ mark_program_thread_ready(t)
    \/ mark_output_thread_stopped(t)

\* The kernel with the lock operations as steps.
LockNext ==
    \/ \E t \in Threads : spawn(t)
    \/ on_shutdown
    \/ signal
    \/ LockMainStep
    \/ \E t \in Threads : LockStep(t)

LockSpec == Init /\ [][LockNext]_vars

\* The process with the watchdog: a body or the hook may never return, and
\* the sleep of the watchdog thread ends.
WatchdogNext == Next \/ watchdog_fire

WatchdogSpec == Init /\ [][WatchdogNext]_vars /\ WF_vars(watchdog_fire)

\* The process with callers of spawn that come late: in Spec the application
\* spawns its loop threads before run() and in launch_datasync, as the
\* generated code does.
SpawnNext == Next \/ \E t \in Threads : spawn_late(t)

SpawnSpec == Init /\ [][SpawnNext]_vars

\* The process with an application that spawns Service threads at any time.
ServiceNext == Next \/ \E s \in ServiceNames : spawn_service(s)

ServiceSpec == Init /\ [][ServiceNext]_vars

\* The process with callers of spawn that use a name a second time.
BusyNext == Next \/ \E t \in Threads \cup {StatsName, ApiName} : spawn_busy(t)

BusySpec == Init /\ [][BusyNext]_vars

\* ------------------------------------------------- thread statistics
\* ConvX::as_u16_max for u32
as_u16_max(val) == IF val > U16_MAX THEN U16_MAX ELSE val

\* JitterStats::new
JitterStats_new(jitter) ==
    [min |-> jitter, max |-> jitter, last |-> jitter, total |-> jitter]

\* seeded fault: when the total would overflow, iters restarts at 1 but the
\* total is kept
ts_report_jitter_keep_total(ts, jitter) ==
    LET was_reset == ts.iters = U32_MAX
        iters1 == IF was_reset THEN 1 ELSE ts.iters + 1
    IN  IF ts.jitter # None
        THEN LET j == ts.jitter[1]
                 j1 == [min |-> IF j.min > jitter THEN jitter ELSE j.min,
                        max |-> IF j.max < jitter THEN jitter ELSE j.max,
                        last |-> jitter,
                        total |-> j.total]
             IN  IF was_reset
                 THEN [iters |-> iters1,
                       jitter |-> Some([j1 EXCEPT !.total = jitter])]
                 ELSE IF j.total > U32_MAX - jitter
                 THEN [iters |-> 1, jitter |-> Some(j1)]
                 ELSE [iters |-> iters1,
                       jitter |-> Some([j1 EXCEPT !.total = j.total + jitter])]
        ELSE [iters |-> iters1, jitter |-> Some(JitterStats_new(jitter))]

\* seeded fault: the iteration counter wraps (wrapping_add) instead of
\* restarting at 1
ts_report_jitter_wrapping(ts, jitter) ==
    LET iters1 == (ts.iters + 1) % (U32_MAX + 1)
    IN  IF ts.jitter # None
        THEN LET j == ts.jitter[1]
                 j1 == [min |-> IF j.min > jitter THEN jitter ELSE j.min,
                        max |-> IF j.max < jitter THEN jitter ELSE j.max,
                        last |-> jitter,
                        total |-> j.total]
             IN  IF j.total > U32_MAX - jitter
                 THEN [iters |-> 1,
                       jitter |-> Some([j1 EXCEPT !.total = jitter])]
                 ELSE [iters |-> iters1,
                       jitter |-> Some([j1 EXCEPT !.total = j.total + jitter])]
        ELSE [iters |-> iters1, jitter |-> Some(JitterStats_new(jitter))]

\* ThreadStats::report_jitter
ts_report_jitter(ts, jitter) ==
    LET was_reset == ts.iters = U32_MAX
        iters1 == IF was_reset THEN 1 ELSE ts.iters + 1
    IN  IF ts.jitter # None
        THEN LET j == ts.jitter[1]
                 j1 == [min |-> IF j.min > jitter THEN jitter ELSE j.min,
                        max |-> IF j.max < jitter THEN jitter ELSE j.max,
                        last |-> jitter,
                        total |-> j.total]
             IN  IF was_reset
                 THEN [iters |-> iters1,
                       jitter |-> Some([j1 EXCEPT !.total = jitter])]
                 ELSE IF j.total > U32_MAX - jitter
                 THEN [iters |-> 1,
                       jitter |-> Some([j1 EXCEPT !.total = jitter])]
                 ELSE [iters |-> iters1,
                       jitter |-> Some([j1 EXCEPT !.total = j.total + jitter])]
        ELSE [iters |-> iters1, jitter |-> Some(JitterStats_new(jitter))]

\* seeded fault: reset forgets the iteration counter
ts_reset_keep_iters(ts) == [iters |-> ts.iters, jitter |-> None]

\* ThreadStats::reset
ts_reset(ts) == [iters |-> 0, jitter |-> None]

\* ThreadStats::info
info(ts) ==
    IF ts.jitter = None
    THEN None
    ELSE LET j == ts.jitter[1]
         IN  Some([iters |-> ts.iters,
                   jitter_min |-> j.min,
                   jitter_max |-> j.max,
                   jitter_last |-> j.last,
                   jitter_avg |-> as_u16_max(j.total \div ts.iters)])

\* handle_api_call, "thread_stats.get": the result map
thread_stats_get == [n \in DOMAIN thread_stats |-> info(thread_stats[n])]

\* the Service threads of the application run a reported Loop
Reporters == svc_started \cap ServiceNames

stats_frame ==
    /\ alive
    /\ UNCHANGED <<kernel, ctx_vars, svc_called, svc_started, busy, io_vars>>

\* seeded fault: the sample is sent with send(), which waits for room
report_jitter_blocking(t, jitter) ==
    /\ t \in Reporters
    /\ sent < MaxSamples
    /\ Len(stats_ch) < StatsChannelSize
    /\ stats_ch' = Append(stats_ch, <<t, jitter>>)
    /\ sent' = sent + 1
    /\ stats_frame
    /\ UNCHANGED <<thread_stats, stats_cur, dropped, resets>>

\* report_jitter(jitter) called by Loop::tick on thread t:
\* try_send((thread_name(), jitter)); a full channel is logged as critical
report_jitter(t, jitter) ==
    /\ t \in Reporters
    /\ sent < MaxSamples
    /\ IF Len(stats_ch) < StatsChannelSize
       THEN /\ stats_ch' = Append(stats_ch, <<t, jitter>>)
            /\ dropped' = dropped
       ELSE /\ stats_ch' = stats_ch
            /\ dropped' = dropped + 1
    /\ sent' = sent + 1
    /\ stats_frame
    /\ UNCHANGED <<thread_stats, stats_cur, resets>>

\* the stats collector: `while let Ok((name, jitter)) = rx.recv()`
stats_recv ==
    /\ stats_cur = None
    /\ stats_ch # <<>>
    /\ stats_cur' = Some(Head(stats_ch))
    /\ stats_ch' = Tail(stats_ch)
    /\ stats_frame
    /\ UNCHANGED <<thread_stats, dropped, sent, resets>>

\* the entry of `name`, when there is one, takes the sample
entry_report_jitter(name, jitter) ==
    IF name \in DOMAIN thread_stats
    THEN [thread_stats EXCEPT ![name] = ts_report_jitter(@, jitter)]
    ELSE thread_stats

\* the stats collector: `if let Some(entry) =
\* CONTROLLER_STATS.lock().thread_stats.get_mut(&name)
\* { entry.report_jitter(jitter) }`
stats_apply ==
    /\ stats_cur # None
    /\ cs_lock = Free
    /\ thread_stats' = entry_report_jitter(stats_cur[1][1], stats_cur[1][2])
    /\ stats_cur' = None
    /\ resets' = 0
    /\ stats_frame
    /\ UNCHANGED <<stats_ch, dropped, sent>>

\* the stats collector, one iteration of its loop on a sample (name, jitter)
\* that a thread has sent
stats_collect(name, jitter) ==
    /\ name \in Reporters
    /\ stats_cur = None
    /\ cs_lock = Free
    /\ thread_stats' = entry_report_jitter(name, jitter)
    /\ resets' = 0
    /\ stats_frame
    /\ UNCHANGED <<stats_ch, stats_cur, dropped, sent>>

\* seeded fault: only the first record is reset
reset_thread_stats_first ==
    /\ socket
    /\ cs_lock = Free
    /\ LET first == CHOOSE n \in DOMAIN thread_stats :
                        \A m \in DOMAIN thread_stats : n[2] <= m[2]
       IN  thread_stats' = [thread_stats EXCEPT ![first] = ts_reset(@)]
    /\ resets' = IF resets < 2 THEN resets + 1 ELSE resets
    /\ stats_frame
    /\ UNCHANGED <<stats_ch, stats_cur, dropped, sent>>

\* reset_thread_stats, called by the API thread for "thread_stats.reset"
\* (the API socket is bound by run())
reset_thread_stats ==
    /\ socket
    /\ cs_lock = Free
    /\ thread_stats' = [n \in DOMAIN thread_stats |-> ts_reset(thread_stats[n])]
    /\ resets' = IF resets < 2 THEN resets + 1 ELSE resets
    /\ stats_frame
    /\ UNCHANGED <<stats_ch, stats_cur, dropped, sent>>

\* The start of run() up to its poll loop (the loop threads wait at their
\* gates), the Service threads of the application with their reported Loops,
\* the stats channel and its collector, and resets through the API.
StatsNext ==
    \/ \E t \in Threads : spawn(t)
    \/ \E s \in ServiceNames : spawn_service(s)
    \/ set_starting
    \/ set_syncing
    \/ set_preparing_if_no_inputs
    \/ set_active_if_no_inputs_and_programs
    \/ \E t \in ServiceNames, jitter \in {U16_MAX} : report_jitter(t, jitter)
    \/ stats_recv
    \/ stats_apply
    \/ reset_thread_stats

StatsSpec == Init /\ [][StatsNext]_vars

\* One Service thread, every sample it can send, and resets through the API:
\* the record of the thread under ThreadStats::report_jitter and reset.
JitterNext ==
    \/ spawn_service(<<"S", 1>>)
    \/ set_starting
    \/ set_syncing
    \/ set_preparing_if_no_inputs
    \/ set_active_if_no_inputs_and_programs
    \/ \E t \in ServiceNames, jitter \in 0..U16_MAX : stats_collect(t, jitter)
    \/ reset_thread_stats

JitterSpec == Init /\ [][JitterNext]_vars

\* ------------------------------------------------------------- Loop
\* A Service thread that drives a Loop made by Loop::prepare0 (report is
\* false, and marked is true because the thread is no Input or Program):
\* `let mut int = Loop::prepare0(p); loop { int.tick(); body }`.
loop_frame ==
    /\ alive
    /\ UNCHANGED <<kernel, ctx_vars, thread_stats, stats_ch, stats_cur, dropped,
                   sent, resets, svc_called, svc_started, busy, api_vars,
                   eapi_vars, mb, gate>>

\* the clock advances (at any moment: a body, a sleep or a preemption may
\* take any time)
time_passes ==
    /\ now < MaxTime
    /\ now' = now + 1
    /\ loop_frame
    /\ UNCHANGED <<interval, next_iter, tick_pc, tk, wake_at, result, slept,
                   overrun_by, t0, nticks>>

\* Loop::prepare0(p): `let now = Instant::now()`, next_iter = now + interval
prepare0(p) ==
    /\ tick_pc = "unprepared"
    /\ interval' = p
    /\ t0' = now
    /\ next_iter' = now + p
    /\ tick_pc' = "body"
    /\ loop_frame
    /\ UNCHANGED <<now, tk, wake_at, result, slept, overrun_by, nticks>>

\* tick(): `let t = Instant::now(); match t.cmp(&self.next_iter)`.
\* Greater: the result is false.  Equal: the result is true, next_iter +=
\* interval, and tick returns.  Less: tasks::sleep(self.next_iter - t).
tick_call ==
    /\ tick_pc = "body"
    /\ tk' = now
    /\ slept' = FALSE
    /\ IF now > next_iter
       THEN /\ tick_pc' = "overrun"
            /\ overrun_by' = now - next_iter
            /\ UNCHANGED <<next_iter, wake_at, result, nticks>>
       ELSE IF now = next_iter
       THEN /\ result' = Some(TRUE)
            /\ next_iter' = next_iter + interval
            /\ nticks' = nticks + 1
            /\ UNCHANGED <<tick_pc, wake_at, overrun_by>>
       ELSE /\ tick_pc' = "sleep"
            /\ wake_at' = now + (next_iter - tk')
            /\ UNCHANGED <<next_iter, result, overrun_by, nticks>>
    /\ loop_frame
    /\ UNCHANGED <<now, interval, t0>>

\* C35 seeded fault: the deadline after a sleep is the time of the wake-up
\* plus one interval
tick_wake_from_now ==
    /\ tick_pc = "sleep"
    /\ now >= wake_at
    /\ result' = Some(TRUE)
    /\ slept' = TRUE
    /\ next_iter' = now + interval
    /\ nticks' = nticks + 1
    /\ tick_pc' = "body"
    /\ loop_frame
    /\ UNCHANGED <<now, interval, tk, wake_at, overrun_by, t0>>

\* tick(): the sleep ends, not before its duration has passed; the result
\* is true, next_iter += interval, and tick returns
tick_wake ==
    /\ tick_pc = "sleep"
    /\ now >= wake_at
    /\ result' = Some(TRUE)
    /\ slept' = TRUE
    /\ next_iter' = next_iter + interval
    /\ nticks' = nticks + 1
    /\ tick_pc' = "body"
    /\ loop_frame
    /\ UNCHANGED <<now, interval, tk, wake_at, overrun_by, t0>>

\* seeded fault: after an overrun the deadline advances by one interval, as
\* it does after a tick in time
tick_overrun_catch_up ==
    /\ tick_pc = "overrun"
    /\ result' = Some(FALSE)
    /\ next_iter' = next_iter + interval
    /\ nticks' = nticks + 1
    /\ tick_pc' = "body"
    /\ loop_frame
    /\ UNCHANGED <<now, interval, tk, wake_at, slept, overrun_by, t0>>

\* tick(), result false: `self.next_iter = Instant::now() + self.interval`,
\* the warning is logged, and tick returns false
tick_overrun ==
    /\ tick_pc = "overrun"
    /\ result' = Some(FALSE)
    /\ next_iter' = now + interval
    /\ nticks' = nticks + 1
    /\ tick_pc' = "body"
    /\ loop_frame
    /\ UNCHANGED <<now, interval, tk, wake_at, slept, overrun_by, t0>>

LoopNext ==
    \/ time_passes
    \/ \E p \in 1..MaxInterval : prepare0(p)
    \/ tick_call
    \/ tick_wake
    \/ tick_overrun

LoopSpec == Init /\ [][LoopNext]_vars

\* ------------------------------------------------------ the control API
JSON_RPC == "2.0"

Methods == {"test", "info", "thread_stats.get", "thread_stats.reset", "nop"}

\* the well-framed requests: the first byte of the frame header is 0 and the
\* body unpacks to a Request
Requests ==
    [hdr : {0}, jsonrpc : {JSON_RPC, "1.0"}, method : Methods,
     params : {None, Some("x")}]

\* frames whose first byte is not 0; what follows the header would unpack to
\* a request that changes the statistics
BadFrames ==
    [hdr : {1}, jsonrpc : {JSON_RPC}, method : {"thread_stats.reset"},
     params : {None}]

\* EResult<Value>
Ok(v) == [ok |-> TRUE, value |-> v]
Err(kind) == [ok |-> FALSE, value |-> kind]

\* Value::Unit
Unit == "unit"

\* plc_info(): the fields that change
plc_info == [status |-> status]

\* handle_api_call: the result
handle_api_call(method, params) ==
    CASE method = "test" ->
            IF params = None THEN Ok(Unit) ELSE Err("invalid_params")
      [] method = "info" ->
            IF params = None THEN Ok(plc_info) ELSE Err("invalid_params")
      [] method = "thread_stats.get" ->
            IF params = None THEN Ok(thread_stats_get) ELSE Err("invalid_params")
      [] method = "thread_stats.reset" ->
            IF params = None THEN Ok(Unit) ELSE Err("invalid_params")
      [] OTHER -> Err("not_implemented")

\* seeded fault: the parameters of thread_stats.reset are looked at after the
\* reset
resets_stats_unchecked(method, params) == method = "thread_stats.reset"

\* handle_api_call calls tasks::reset_thread_stats()
resets_stats(method, params) == method = "thread_stats.reset" /\ params = None

\* handle_api_call takes the registry mutex
locks_stats(method, params) ==
    method \in {"thread_stats.get", "thread_stats.reset"} /\ params = None

\* impl From<EResult<Value>> for Response: Response::result / Response::err
Response(r) ==
    [jsonrpc |-> JSON_RPC,
     result |-> IF r.ok THEN Some(r.value) ELSE None,
     error |-> IF r.ok THEN None ELSE Some(r.value)]

api_frame ==
    /\ alive
    /\ UNCHANGED <<kernel, ctx_vars, stats_ch, stats_cur, dropped, sent,
                   svc_called, svc_started, busy, loop_vars, eapi_vars, mb,
                   gate>>

\* a client connects to the socket: listener.incoming() yields the stream and
\* the listener hands it to a pool thread, which runs handle_api_stream.  The
\* connections are followed one after the other.
api_connect ==
    /\ socket
    /\ conn \in {"none", "closed"}
    /\ api_conns < MaxConns
    /\ conn' = "open"
    /\ api_conns' = api_conns + 1
    /\ api_in' = <<>>
    /\ api_frame
    /\ UNCHANGED <<thread_stats, resets, api_cur, api_resp, api_sent,
                   api_read, api_nresp, api_err>>

\* the client writes a frame; it need not wait for the response to an
\* earlier one
api_send(req) ==
    /\ conn = "open"
    /\ api_sent < MaxRequests
    /\ api_in' = Append(api_in, req)
    /\ api_sent' = api_sent + 1
    /\ api_frame
    /\ UNCHANGED <<thread_stats, resets, conn, api_cur, api_resp, api_read,
                   api_nresp, api_conns, api_err>>

\* the client closes the connection after its last response: read_exact
\* fails with UnexpectedEof and handle_api_stream breaks
api_close ==
    /\ conn = "open"
    /\ api_in = <<>>
    /\ api_cur = None
    /\ conn' = "closed"
    /\ api_frame
    /\ UNCHANGED <<thread_stats, resets, api_in, api_cur, api_resp, api_sent,
                   api_read, api_nresp, api_conns, api_err>>

\* the client writes nothing for DEFAULT_TIMEOUT: read_exact fails with
\* another error than UnexpectedEof, handle_api_stream returns it and the
\* pool thread logs it
api_read_timeout ==
    /\ conn = "open"
    /\ api_in = <<>>
    /\ api_cur = None
    /\ conn' = "closed"
    /\ api_err' = Some("io")
    /\ api_frame
    /\ UNCHANGED <<thread_stats, resets, api_in, api_cur, api_resp, api_sent,
                   api_read, api_nresp, api_conns>>

\* C31 seeded fault: the first byte of the header is not tested
api_read_request_any_header ==
    /\ conn = "open"
    /\ api_cur = None
    /\ api_in # <<>>
    /\ IF Head(api_in).jsonrpc = JSON_RPC
       THEN /\ api_cur' = Some(Head(api_in))
            /\ api_in' = Tail(api_in)
            /\ api_read' = api_read + 1
            /\ UNCHANGED <<conn, api_err>>
       ELSE /\ conn' = "closed"
            /\ api_in' = <<>>
            /\ api_err' = Some("unsupported")
            /\ UNCHANGED <<api_cur, api_read>>
    /\ api_frame
    /\ UNCHANGED <<thread_stats, resets, api_resp, api_sent, api_nresp,
                   api_conns>>

\* handle_api_stream: the header is read: `if buf[0] != 0 { return Err(..) }`;
\* then the body is read and unpacked, then `req.check()?`: with another
\* version than JSON_RPC the function returns the Err.  When the function
\* returns, the stream is dropped with what the client has written, and the
\* pool thread logs the error
api_read_request ==
    /\ conn = "open"
    /\ api_cur = None
    /\ api_in # <<>>
    /\ IF Head(api_in).hdr # 0
       THEN /\ conn' = "closed"
            /\ api_in' = <<>>
            /\ api_err' = Some("invalid_data")
            /\ UNCHANGED <<api_cur, api_read>>
       ELSE IF Head(api_in).jsonrpc = JSON_RPC
       THEN /\ api_cur' = Some(Head(api_in))
            /\ api_in' = Tail(api_in)
            /\ api_read' = api_read + 1
            /\ UNCHANGED <<conn, api_err>>
       ELSE /\ conn' = "closed"
            /\ api_in' = <<>>
            /\ api_err' = Some("unsupported")
            /\ UNCHANGED <<api_cur, api_read>>
    /\ api_frame
    /\ UNCHANGED <<thread_stats, resets, api_resp, api_sent, api_nresp,
                   api_conns>>

\* handle_api_stream: handle_api_call(&req.method, req.params).into(), then
\* the response is packed and written
api_call ==
    /\ conn = "open"
    /\ api_cur # None
    /\ LET req == api_cur[1] IN
        /\ locks_stats(req.method, req.params) => cs_lock = Free
        /\ api_resp' = Some(Response(handle_api_call(req.method, req.params)))
        /\ IF resets_stats(req.method, req.params)
           THEN /\ thread_stats' =
                        [n \in DOMAIN thread_stats |-> ts_reset(thread_stats[n])]
                /\ resets' = IF resets < 2 THEN resets + 1 ELSE resets
           ELSE UNCHANGED <<thread_stats, resets>>
    /\ api_cur' = None
    /\ api_nresp' = api_nresp + 1
    /\ api_frame
    /\ UNCHANGED <<conn, api_in, api_sent, api_read, api_conns, api_err>>

\* The start of run() up to its poll loop, one Service thread whose samples
\* the collector processes, and the clients of the control socket.
ApiNext ==
    \/ set_starting
    \/ set_syncing
    \/ set_preparing_if_no_inputs
    \/ set_active_if_no_inputs_and_programs
    \/ spawn_service(<<"S", 1>>)
    \/ stats_collect(<<"S", 1>>, U16_MAX)
    \/ api_connect
    \/ \E req \in Requests \cup BadFrames : api_send(req)
    \/ api_read_request
    \/ api_call
    \/ api_close
    \/ api_read_timeout

ApiSpec == Init /\ [][ApiNext]_vars

\* ------------------------------------------------- the EAPI actions
\* The bus client of eapi::run calls Handlers::handle_call for every RPC
\* call; the "action" method unpacks the Action and runs a closure on the
\* blocking pool of the runtime (max_blocking_threads(action_pool_size)).
\* The closure calls handle_action and then sends the terminal event.
\* A handler is user code: it returns Ok or Err.

\* an item that gets a handler and an item that does not
Oids == {1, 2}

eapi_frame ==
    /\ alive
    /\ UNCHANGED <<kernel, ctx_vars, thread_stats, stats_ch, stats_cur, dropped,
                   sent, resets, svc_called, svc_started, busy, loop_vars,
                   api_vars, mb, gate>>

\* eapi::run: the bus client is connected, the publisher worker is spawned
\* and PUBLISHER_TX is replaced by the sender of a new channel
eapi_connect ==
    /\ ~publisher_tx
    /\ publisher_tx' = TRUE
    /\ eapi_frame
    /\ UNCHANGED <<action_handlers, ah_lock, events, act>>

\* eapi::run: the client is no longer connected; PUBLISHER_TX.lock().take()
eapi_disconnect ==
    /\ publisher_tx
    /\ publisher_tx' = FALSE
    /\ eapi_frame
    /\ UNCHANGED <<action_handlers, ah_lock, events, act>>

\* C39 seeded fault: the handler table is read without its lock
handlers_unlocked == TRUE

\* ACTION_HANDLERS.lock() returns
handlers_lock_free == ah_lock = None

\* append_action_handler / one pair of append_action_handlers_bulk: the
\* insert under the lock, and the assert that panics when the item had a
\* handler (the panic hook ends the process)
append_action_handler(oid) ==
    /\ handlers_lock_free
    /\ action_handlers' = action_handlers \cup {oid}
    /\ exit_code' = IF oid \in action_handlers THEN Some(1) ELSE exit_code
    /\ alive
    /\ UNCHANGED <<status, status_log, term_flag, shutdown_fn, wait_handles,
                   join_queue, registry, cs_lock, main_pc, pc, marked,
                   last_sync, ran, late, hook_calls, watchdog, pid_file,
                   socket, spawn_error, ctx_vars, thread_stats, stats_ch,
                   stats_cur, dropped, sent, resets, svc_called, svc_started,
                   busy, loop_vars, api_vars, ah_lock, publisher_tx, events,
                   act, mb, gate>>

\* the blocking tasks that occupy a thread of the pool
Running == {a \in 1..MaxActions : act[a].pc \in {"lookup", "handler", "terminal"}}

\* handle_call, method "action": the payload is unpacked and the closure is
\* given to spawn_blocking; it starts when the pool has a free thread
action_call(a, oid) ==
    /\ publisher_tx
    /\ act[a].pc = "none"
    /\ \A b \in 1..(a - 1) : act[b].pc # "none"
    /\ Cardinality(Running) < ActionPoolSize
    /\ act' = [act EXCEPT ![a] = [NoAction EXCEPT !.pc = "lookup", !.oid = oid]]
    /\ eapi_frame
    /\ UNCHANGED <<action_handlers, ah_lock, publisher_tx, events>>

\* tx.send_blocking(PublishPayload::Single(topic, packed)): the events of
\* an action carry its uuid
send_event(a, kind) == [events EXCEPT ![a] = Append(events[a], kind)]

\* handle_action up to the call of the handler: ACTION_HANDLERS.lock().get;
\* with a handler, under PUBLISHER_TX.lock(), the running event is sent, or
\* the function returns Err(failed) when there is no sender; without a
\* handler the function returns Err(not_found).  The guard of the handler
\* table is a temporary of the `if let`: it is held until the function
\* returns
handle_action_lookup(a) ==
    /\ act[a].pc = "lookup"
    /\ handlers_lock_free
    /\ IF act[a].oid \in action_handlers
       THEN IF publisher_tx
            THEN /\ events' = send_event(a, "running")
                 /\ ah_lock' = Some(a)
                 /\ act' = [act EXCEPT ![a].pc = "handler",
                                       ![a].calls = act[a].calls + 1]
            ELSE /\ act' = [act EXCEPT ![a].pc = "terminal",
                                       ![a].res = Some("not_registered")]
                 /\ UNCHANGED <<events, ah_lock>>
       ELSE /\ act' = [act EXCEPT ![a].pc = "terminal",
                                  ![a].res = Some("not_found")]
            /\ UNCHANGED <<events, ah_lock>>
    /\ eapi_frame
    /\ UNCHANGED <<action_handlers, publisher_tx>>

\* handle_action: `handler(action)` returns, and the guard is dropped
handle_action_return(a, ok) ==
    /\ act[a].pc = "handler"
    /\ act' = [act EXCEPT ![a].pc = "terminal",
                          ![a].res = Some(IF ok THEN "ok" ELSE "handler_error")]
    /\ ah_lock' = None
    /\ eapi_frame
    /\ UNCHANGED <<action_handlers, publisher_tx, events>>

\* C32 seeded fault: the terminal event is always completed
terminal_completed(res) == "completed"

\* the closure: event_failed if handle_action returned Err, else
\* event_completed
terminal_kind(res) == IF res = Some("ok") THEN "completed" ELSE "failed"

\* the closure: the terminal event is sent if PUBLISHER_TX is Some; else
\* "action response orphaned" is logged
action_terminal(a) ==
    /\ act[a].pc = "terminal"
    /\ IF publisher_tx
       THEN /\ events' = send_event(a, terminal_kind(act[a].res))
            /\ act' = [act EXCEPT ![a].pc = "done"]
       ELSE /\ act' = [act EXCEPT ![a].pc = "done", ![a].orphan = TRUE]
            /\ UNCHANGED events
    /\ eapi_frame
    /\ UNCHANGED <<action_handlers, ah_lock, publisher_tx>>

\* The bus connection, the registration of handlers (at any time, as
\* launch_datasync runs after eapi::launch) and the action requests.
EapiNext ==
    \/ eapi_connect
    \/ eapi_disconnect
    \/ append_action_handler(1)
    \/ \E a \in 1..MaxActions, oid \in Oids : action_call(a, oid)
    \/ \E a \in 1..MaxActions : handle_action_lookup(a)
    \/ \E a \in 1..MaxActions, ok \in BOOLEAN : handle_action_return(a, ok)
    \/ \E a \in 1..MaxActions : action_terminal(a)

EapiSpec == Init /\ [][EapiNext]_vars

\* ------------------------------------------- Modbus coils and registers
\* io/modbus/types.rs.  Coils is a Vec<bool>, Registers a Vec<u16>; the
\* integers are scaled: a byte has ByteBits bits.

BYTE == 2 ^ ByteBits
WORD == BYTE * BYTE

RegisterTypes == {"u16", "i16", "u32", "i32", "u64", "i64"}
Types == RegisterTypes \cup {"bool"}

\* size_of::<T>() in bytes
Bytes(ty) ==
    CASE ty \in {"u16", "i16"} -> 2
      [] ty \in {"u32", "i32"} -> 4
      [] ty \in {"u64", "i64"} -> 8

Signed(ty) == ty \in {"i16", "i32", "i64"}

\* the number of coils / registers one value takes
Units(ty) == IF ty = "bool" THEN 1 ELSE Bytes(ty) \div 2

\* `*v as u16`, `*v as u32`, `*v as u64`
as_unsigned(ty, v) == v % (BYTE ^ Bytes(ty))

\* `*v as i16`, i32::from_be_bytes, i64::from_be_bytes on the bit pattern u
as_signed(ty, u) ==
    IF Signed(ty) /\ u >= (BYTE ^ Bytes(ty)) \div 2
    THEN u - BYTE ^ Bytes(ty)
    ELSE u

\* uN::to_be_bytes
to_be_bytes(u, n) == [i \in 1..n |-> (u \div (BYTE ^ (n - i))) % BYTE]

\* uN::from_be_bytes
RECURSIVE from_be_bytes(_)
from_be_bytes(bs) ==
    IF bs = <<>> THEN 0
    ELSE from_be_bytes(SubSeq(bs, 1, Len(bs) - 1)) * BYTE + bs[Len(bs)]

\* C33 seeded fault: the least significant word first
to_modbus_array_swapped(u, n) ==
    LET v == to_be_bytes(u, n) IN
    [j \in 1..(n \div 2) |->
        ((v[n - 2 * j + 1] * BYTE) % WORD) + v[n - 2 * j + 2]]

\* u32_to_modbus_array / u64_to_modbus_array:
\* u16::from(v[0]).overflowing_shl(8).0 + u16::from(v[1]), ...
to_modbus_array(u, n) ==
    LET v == to_be_bytes(u, n) IN
    [j \in 1..(n \div 2) |-> ((v[2 * j - 1] * BYTE) % WORD) + v[2 * j]]

\* From<&T> for Coils / Registers
from_value(ty, v) ==
    IF ty = "bool" THEN <<v>>
    ELSE IF Bytes(ty) = 2 THEN <<as_unsigned(ty, v)>>
    ELSE to_modbus_array(as_unsigned(ty, v), Bytes(ty))

\* From<&[T; N]> for Coils / Registers
RECURSIVE from_array(_, _)
from_array(ty, vals) ==
    IF vals = <<>> THEN <<>>
    ELSE from_value(ty, Head(vals)) \o from_array(ty, Tail(vals))

\* C34 seeded fault: the index Len is accepted
slice_at_inclusive(c, idx) ==
    IF idx <= Len(c) THEN Ok(SubSeq(c, idx + 1, Len(c))) ELSE Err("invalid_data")

\* Coils::slice_at / Registers::slice_at
slice_at(c, idx) ==
    IF idx < Len(c) THEN Ok(SubSeq(c, idx + 1, Len(c))) ELSE Err("invalid_data")

\* <[T]>::get (first() is get(0))
get(s, idx) == IF idx < Len(s) THEN Some(s[idx + 1]) ELSE None

\* the body of the wide conversions: val1 .. valN read with
\* `s.get(idx + j).ok_or_else(|| invalid_data!())?`, then from_be_bytes of
\* their bytes
wide_at(ty, s, idx) ==
    LET words == [j \in 1..Units(ty) |-> get(s, idx + j - 1)] IN
    IF \E j \in 1..Units(ty) : words[j] = None
    THEN Err("invalid_data")
    ELSE LET RECURSIVE bytes(_)
             bytes(j) == IF j > Units(ty) THEN <<>>
                         ELSE to_be_bytes(words[j][1], 2) \o bytes(j + 1)
         IN Ok(as_signed(ty, from_be_bytes(bytes(1))))

\* TryFrom<CoilSlice> for bool, TryFrom<RegisterSlice> for T
try_from_value(ty, s) ==
    IF ty = "bool" \/ Bytes(ty) = 2
    THEN IF get(s, 0) = None THEN Err("invalid_data")
         ELSE Ok(IF ty = "bool" THEN s[1] ELSE as_signed(ty, s[1]))
    ELSE wide_at(ty, s, 0)

\* TryFrom<RegisterSlice> for [u32; N] and the other wide types: the loop
\* `for idx in (0..N * k).step_by(k)`
RECURSIVE try_from_loop(_, _, _, _, _)
try_from_loop(ty, s, N, idx, acc) ==
    IF idx >= N * Units(ty) THEN Ok(acc)
    ELSE LET v == wide_at(ty, s, idx) IN
         IF ~v.ok THEN v
         ELSE try_from_loop(ty, s, N, idx + Units(ty), Append(acc, v.value))

\* TryFrom<CoilSlice> for [bool; N], TryFrom<RegisterSlice> for [T; N]
try_from_array(ty, s, N) ==
    IF ty = "bool" \/ Bytes(ty) = 2
    THEN IF N > Len(s) THEN Err("invalid_data")
         ELSE Ok([i \in 1..N |-> IF ty = "bool" THEN s[i] ELSE as_signed(ty, s[i])])
    ELSE try_from_loop(ty, s, N, 0, <<>>)

\* a value whose words are all different
Pattern(ty) == from_be_bytes([i \in 1..Bytes(ty) |-> (i \div 2) % BYTE])

\* the values of a type that the arrays are made of: the extremes, the sign
\* bit alone, a value with different words
Samples(ty) ==
    IF ty = "bool" THEN BOOLEAN
    ELSE {as_signed(ty, u) : u \in {0, BYTE ^ Bytes(ty) - 1,
                                    (BYTE ^ Bytes(ty)) \div 2, Pattern(ty)}}

Arrays(ty) == UNION {[1..k -> Samples(ty)] : k \in 0..MaxLen}

mb_frame ==
    /\ alive
    /\ UNCHANGED <<kernel, ctx_vars, thread_stats, stats_ch, stats_cur, dropped,
                   sent, resets, svc_called, svc_started, busy, loop_vars,
                   api_vars, eapi_vars, gate>>

\* Coils::from(&vals) / Registers::from(&vals)
mb_from_array(ty) ==
    /\ mb.pc = "none"
    /\ \E vals \in Arrays(ty) :
        mb' = [NoConversion EXCEPT !.pc = "regs", !.ty = ty, !.vals = vals,
                                  !.regs = from_array(ty, vals)]
    /\ mb_frame

\* `regs.slice_at(idx)?.try_into()` for a value of type `to` (scalar) or
\* for a [to; n]
mb_try_into ==
    /\ mb.pc = "regs"
    /\ \E to \in Types, scalar \in BOOLEAN,
          idx \in 0..(Len(mb.regs) + 1), n \in 0..(MaxLen + 1) :
        /\ (to = "bool") <=> (mb.ty = "bool")
        /\ scalar => n = 1
        /\ LET slice == slice_at(mb.regs, idx) IN
           mb' = [mb EXCEPT !.pc = "out", !.to = to, !.scalar = scalar,
                            !.idx = idx, !.n = n, !.slice = Some(slice),
                            !.out = Some(IF ~slice.ok THEN slice
                                         ELSE IF scalar
                                         THEN try_from_value(to, slice.value)
                                         ELSE try_from_array(to, slice.value, n))]
    /\ mb_frame

ModbusNext ==
    \/ \E ty \in Types : mb_from_array(ty)
    \/ mb_try_into

ModbusSpec == Init /\ [][ModbusNext]_vars

\* ------------------------------------------------- the process image
\* CONTEXT is a parking_lot RwLock: write() waits until nobody holds the lock,
\* read() waits until no writer holds it.  A Program body that works on the
\* image takes the write lock first (`let mut ctx = plc_context_mut!()`),
\* sets the fields one after the other, and releases the lock when it
\* returns.  A generated Output worker takes the read lock
\* (`let ctx = CONTEXT.read()`), copies the fields into its local data one
\* after the other, releases the lock and sends the data out.

\* plc_context_mut!(): CONTEXT.write()
program_lock(p) ==
    /\ ctx_pc[p] = "idle"
    /\ ctx_writer = None
    /\ ctx_readers = {}
    /\ ctx_writer' = Some(p)
    /\ ctx_pc' = [ctx_pc EXCEPT ![p] = "write"]
    /\ cursor' = [cursor EXCEPT ![p] = 1]
    /\ UNCHANGED <<image, ctx_readers, data, ticks, kernel, thread_stats, aux>>

\* the body sets one field through the guard
program_write(p) ==
    /\ ctx_pc[p] = "write"
    /\ cursor[p] <= NumCells
    /\ image' = [image EXCEPT ![cursor[p]] = Stamp(p, (ticks + 1) % MaxTicks)]
    /\ cursor' = [cursor EXCEPT ![p] = cursor[p] + 1]
    /\ UNCHANGED <<ctx_writer, ctx_readers, ctx_pc, data, ticks, kernel, thread_stats, aux>>

\* the body returns: the guard is dropped
program_unlock(p) ==
    /\ ctx_pc[p] = "write"
    /\ cursor[p] > NumCells
    /\ ctx_writer' = None
    /\ ctx_pc' = [ctx_pc EXCEPT ![p] = "idle"]
    /\ ticks' = (ticks + 1) % MaxTicks
    /\ UNCHANGED <<image, ctx_readers, cursor, data, kernel, thread_stats, aux>>

\* seeded fault: a reader is let in while a writer holds the lock
output_lock_dirty(o) ==
    /\ ctx_pc[o] = "idle"
    /\ ctx_readers' = ctx_readers \cup {o}
    /\ ctx_pc' = [ctx_pc EXCEPT ![o] = "copy"]
    /\ cursor' = [cursor EXCEPT ![o] = 1]
    /\ UNCHANGED <<image, ctx_writer, data, ticks, kernel, thread_stats, aux>>

\* Output worker: CONTEXT.read()
output_lock(o) ==
    /\ ctx_pc[o] = "idle"
    /\ ctx_writer = None
    /\ ctx_readers' = ctx_readers \cup {o}
    /\ ctx_pc' = [ctx_pc EXCEPT ![o] = "copy"]
    /\ cursor' = [cursor EXCEPT ![o] = 1]
    /\ UNCHANGED <<image, ctx_writer, data, ticks, kernel, thread_stats, aux>>

\* Output worker: one field is copied into the local data
output_copy(o) ==
    /\ ctx_pc[o] = "copy"
    /\ cursor[o] <= NumCells
    /\ data' = [data EXCEPT ![o][cursor[o]] = image[cursor[o]]]
    /\ cursor' = [cursor EXCEPT ![o] = cursor[o] + 1]
    /\ UNCHANGED <<image, ctx_writer, ctx_readers, ctx_pc, ticks, kernel, thread_stats, aux>>

\* Output worker: the block of the copy ends, the guard is dropped
output_unlock(o) ==
    /\ ctx_pc[o] = "copy"
    /\ cursor[o] > NumCells
    /\ ctx_readers' = ctx_readers \ {o}
    /\ ctx_pc' = [ctx_pc EXCEPT ![o] = "send"]
    /\ UNCHANGED <<image, ctx_writer, cursor, data, ticks, kernel, thread_stats, aux>>

\* Output worker: the data is sent to the device, the worker returns (its
\* data is a local of the call)
output_send(o) ==
    /\ ctx_pc[o] = "send"
    /\ ctx_pc' = [ctx_pc EXCEPT ![o] = "idle"]
    /\ data' = [data EXCEPT ![o] = [c \in Cells |-> Default]]
    /\ UNCHANGED <<image, ctx_writer, ctx_readers, cursor, ticks, kernel, thread_stats, aux>>

ImageNext ==
    \/ \E p \in ProgramNames : program_lock(p)
    \/ \E p \in ProgramNames : program_write(p)
    \/ \E p \in ProgramNames : program_unlock(p)
    \/ \E o \in OutputNames : output_lock(o)
    \/ \E o \in OutputNames : output_copy(o)
    \/ \E o \in OutputNames : output_unlock(o)
    \/ \E o \in OutputNames : output_send(o)

ImageSpec == Init /\ [][ImageNext]_vars

\* ------------------------------------------------------------ helpers
\* of the properties
InputsRegistered == DOMAIN input_threads_ready
ProgramsRegistered == DOMAIN program_threads_ready
OutputsRegistered == DOMAIN output_threads_stopped
Positive == {Starting, Syncing, Preparing, Active}
Negative == {Stopping, StopSyncing, Stopped}

\* C1: once a negative (shutdown) status has been stored, no later store
\* sets a positive status
C1_NoReturnToPositive ==
    \A i, j \in DOMAIN status_log :
        (i < j /\ status_log[i] \in Negative) => status_log[j] \notin Positive

LoopThreadsJoined == \A t \in InputsRegistered \cup ProgramsRegistered : pc[t] = "done"

\* C2 as stated: the status is StopSyncing only after every registered
\* Input and Program thread has terminated and an installed hook has returned
C2_StopSyncingAfterJoin ==
    status = StopSyncing =>
        /\ LoopThreadsJoined
        /\ shutdown_fn => (hook_calls = 1 /\ main_pc # "hook_running")

\* C2 amended: with a hook installed the status is StopSyncing only after
\* every registered Input and Program thread has been joined and the hook
\* has returned; without a hook shutdown() joins nothing and calls nothing
C2_StopSyncingAfterJoinIfHook ==
    /\ (status = StopSyncing /\ shutdown_fn) =>
            /\ LoopThreadsJoined
            /\ join_queue = <<>>
            /\ hook_calls = 1
            /\ main_pc # "hook_running"
    /\ ~shutdown_fn => (hook_calls = 0 /\ join_queue = <<>>
                        /\ main_pc \notin {"join", "hook", "hook_running"})

C2_Witness ==
    /\ status = StopSyncing
    /\ shutdown_fn
    /\ InputsRegistered # {}
    /\ ProgramsRegistered # {}

\* a step that stores a status
Stores(v) == Len(status_log') = Len(status_log) + 1 /\ status' = v

WentThroughShutdown == Stopping \in Range(status_log)

RECURSIVE NegativesOf(_)
NegativesOf(log) ==
    IF log = <<>> THEN <<>>
    ELSE IF Head(log) \in Negative
         THEN <<Head(log)>> \o NegativesOf(Tail(log))
         ELSE NegativesOf(Tail(log))

ShutdownLog == NegativesOf(status_log)

\* the value stored just before the first negative one
BeforeShutdown ==
    LET first == CHOOSE i \in DOMAIN status_log :
                     /\ status_log[i] \in Negative
                     /\ \A j \in 1..(i - 1) : status_log[j] \notin Negative
    IN status_log[first - 1]

\* C4 as stated: the first shutdown value of the status is Stopping,
\* whatever the status was when the termination flag was observed
C4_FirstShutdownValueIsStopping ==
    ShutdownLog # <<>> => Head(ShutdownLog) = Stopping

\* C4 amended: when run() reads the status Active after the termination
\* flag, the status goes Stopping, then StopSyncing, then Stopped; when it
\* reads any other status, the main thread stores Stopped directly and
\* neither Stopping nor StopSyncing is ever stored
C4_StoppingOnlyFromActive ==
    /\ main_pc = "shutdown" => status = Active
    /\ ShutdownLog # <<>> => Head(ShutdownLog) \in {Stopping, Stopped}
    /\ WentThroughShutdown =>
            /\ BeforeShutdown = Active
            /\ \A i \in DOMAIN ShutdownLog :
                   ShutdownLog[i] = (IF i = 1 THEN Stopping
                                     ELSE IF i = 2 THEN StopSyncing
                                     ELSE Stopped)
    /\ (ShutdownLog # <<>> /\ ~WentThroughShutdown) =>
            /\ ShutdownLog = <<Stopped>>
            /\ main_pc \in {"cleanup", "done"}

C4_Witness ==
    /\ status = Stopped
    /\ ~WentThroughShutdown
    /\ Preparing \in Range(status_log)
    /\ main_pc = "cleanup"

\* C5 as stated: once the status is Stopped after a termination signal, an
\* installed hook has been invoked exactly once
C5_HookCalledBeforeStopped ==
    (shutdown_fn /\ Stopped \in Range(status_log)) => hook_calls = 1

\* C5 amended: if run() read the status Active after the termination signal,
\* an installed hook is invoked exactly once before the status reaches
\* Stopped, after every Input and Program thread has been joined and before
\* StopSyncing is stored; if run() read another status, the hook is never
\* invoked
C5_HookCalledOnceFromActive ==
    /\ hook_calls <= 1
    /\ (shutdown_fn /\ WentThroughShutdown /\ Len(ShutdownLog) >= 2) =>
            hook_calls = 1
    /\ main_pc = "hook_running" =>
            /\ hook_calls = 1
            /\ LoopThreadsJoined
            /\ ShutdownLog = <<Stopping>>
            /\ status = Stopping
    /\ hook_calls = 1 => (shutdown_fn /\ WentThroughShutdown /\ LoopThreadsJoined)
    /\ ~WentThroughShutdown => hook_calls = 0

C5_Witness ==
    /\ main_pc = "hook_running"
    /\ Cardinality(InputsRegistered \cup ProgramsRegistered) = 2

OutputsFlushed == AllTrue(output_threads_stopped) /\ status = Stopped

C7_NoOutputBodyWhenStopped ==
    [][\A t \in OutputsRegistered :
         (status = Stopped /\ pc[t] = "top" /\ ran[t]) => pc'[t] # "body"]_vars

\* C8: a body execution of an Input or Program thread that begins after the
\* shutdown began is the last one: no such thread begins a second one
C8_AtMostOneLateBody ==
    \A t \in InputsRegistered \cup ProgramsRegistered : late[t] <= 1

\* a second late body execution happens only after a positive status has
\* been stored over a negative one (the stores C1 forbids)
C8_OnlyAfterReturnToPositive ==
    (\E t \in InputsRegistered \cup ProgramsRegistered : late[t] > 1)
        => ~C1_NoReturnToPositive

Spawned == {t \in Threads : pc[t] # "unspawned"}

\* C9: no Input body executes while the status is Inactive or Starting, no
\* Program or Output body executes while the status is Inactive, Starting or
\* Syncing, and until its phase is reached a spawned thread of such a kind
\* is blocked in prepare
C9_PhaseGate ==
    /\ status \in {Inactive, Starting} =>
            \A t \in Spawned : pc[t] = "gate"
    /\ status = Syncing =>
            \A t \in Spawned : Kind(t) \in {"P", "O"} => pc[t] = "gate"
    /\ \A t \in Spawned :
            pc[t] = "body" =>
                /\ status \notin {Inactive, Starting}
                /\ Kind(t) \in {"P", "O"} => status # Syncing

C9_Witness ==
    /\ status = Syncing
    /\ \E t \in InputsRegistered : pc[t] = "body"
    /\ \E t \in ProgramsRegistered \cup OutputsRegistered : pc[t] = "gate"

\* C10: whenever the status is Preparing or Active, every registered Input
\* thread has completed a body execution and is marked ready; whenever it is
\* Active, every registered Program thread has completed its first loop
\* iteration and is marked ready; no thread is marked ready before it has
\* completed a body phase
C10_ReadyAtFirstTick ==
    /\ status \in {Preparing, Active} =>
            \A t \in InputsRegistered : ran[t] /\ input_threads_ready[t]
    /\ status = Active =>
            \A t \in ProgramsRegistered : ran[t] /\ program_threads_ready[t]
    /\ \A t \in InputsRegistered : input_threads_ready[t] => ran[t]
    /\ \A t \in ProgramsRegistered : program_threads_ready[t] => ran[t]

C10_Witness ==
    /\ status = Preparing
    /\ Cardinality(InputsRegistered) = 2
    /\ \E t \in InputsRegistered : pc[t] = "set_active"

\* C11: in every state the aggregate flag inputs_ready is true exactly when
\* every entry of the Input readiness table is true (also when the table is
\* empty), and the same holds for programs_ready over the Program table and
\* for outputs_stopped over the Output table
C11_FlagsMatchTables ==
    /\ inputs_ready <=> AllTrue(input_threads_ready)
    /\ programs_ready <=> AllTrue(program_threads_ready)
    /\ outputs_stopped <=> AllTrue(output_threads_stopped)

C11_Witness ==
    /\ ~outputs_stopped
    /\ \E t \in OutputsRegistered : output_threads_stopped[t]
    /\ \E t \in OutputsRegistered : ~output_threads_stopped[t]

\* the Output thread t has completed a body execution that began while the
\* status was StopSyncing (this stays true once it is true, as does a flag
\* of the table, so "every such Output gets its flag set" is: again and
\* again, every such Output has its flag set)
FinalSyncDone(t) == last_sync[t] /\ pc[t] \in {"mark_stopped", "set_stopped", "done"}

C13_EventuallyActive == <>(term_flag \/ status = Active)

C13_Witness ==
    /\ status = Active
    /\ ~term_flag
    /\ InputsRegistered # {}
    /\ ProgramsRegistered # {}

\* the positions of the main thread before it has handled the signal
Startup == {"setup", "launch", "preparing_if_no_inputs", "active_if_none", "poll"}

FullLog == <<Starting, Syncing, Preparing, Active, Stopping, StopSyncing, Stopped>>

IsPrefix(p, q) == Len(p) <= Len(q) /\ \A i \in DOMAIN p : p[i] = q[i]

\* C14: when no Input, Program or Output thread is registered, run() itself
\* stores Starting, Syncing, Preparing and Active before it polls the
\* termination flag, and after the signal it stores Stopping, StopSyncing
\* and Stopped before it removes the files, with or without a hook; the
\* hook, when installed, is called once
C14_NoThreadRun ==
    Spawned = {} =>
        /\ IsPrefix(status_log, FullLog)
        /\ main_pc = "poll" => status = Active
        /\ main_pc = "wait_stopped" => status = Stopped
        /\ main_pc \in {"cleanup", "done"} =>
                /\ status_log = FullLog
                /\ hook_calls = (IF shutdown_fn THEN 1 ELSE 0)
        /\ main_pc = "join" => join_queue = <<>>
        /\ main_pc # "set_stopped"

C14_Witness ==
    /\ Spawned = {}
    /\ main_pc = "done"
    /\ shutdown_fn
    /\ status_log = FullLog

\* the values stored before the first shutdown value
RECURSIVE StartupOf(_)
StartupOf(log) ==
    IF log = <<>> \/ Head(log) \in Negative THEN <<>>
    ELSE <<Head(log)>> \o StartupOf(Tail(log))

StartupLog == StartupOf(status_log)

\* C15: until a shutdown value is stored, every value stored in the status
\* is greater than the one before: the status steps forward in the order
\* Inactive, Starting, Syncing, Preparing, Active and never moves back
C15_StartupMonotone ==
    /\ \A i \in DOMAIN StartupLog :
            /\ StartupLog[i] \in Positive
            /\ i > 1 => StartupLog[i - 1] < StartupLog[i]
    /\ ShutdownLog = <<>> =>
            status = (IF status_log = <<>> THEN Inactive ELSE status_log[Len(status_log)])

C15_Witness ==
    /\ status_log = <<Starting, Syncing, Preparing, Active>>
    /\ Cardinality(InputsRegistered) = 2
    /\ main_pc = "active_if_none"

\* C16: after Stopping has been stored, every later store that changes the
\* status lowers it (Stopping, then StopSyncing, then Stopped): no value
\* stored after Stopping is greater than the one before it, and Stopped is
\* never followed by StopSyncing or Stopping
C16_ShutdownMonotone ==
    /\ \A i, j \in DOMAIN status_log :
            (status_log[i] = Stopping /\ i < j) => status_log[j] <= status_log[j - 1]
    /\ \A i, j \in DOMAIN status_log :
            (status_log[i] = Stopped /\ i < j) =>
                status_log[j] \notin {StopSyncing, Stopping}
    /\ WentThroughShutdown => status = status_log[Len(status_log)]

C16_Witness ==
    /\ ShutdownLog = <<Stopping, StopSyncing, Stopped, Stopped>>
    /\ OutputsRegistered # {}

\* run() has left its poll loop: the termination signal has been handled
Handled == main_pc \notin Startup

\* C17: once the termination signal has been handled the process ends, also
\* when a body or the shutdown hook never returns: it exits with code 0
\* only when run() has completed the shutdown, and with code 1 otherwise,
\* by the panic of the stop_timeout thread
C17_BoundedShutdown ==
    /\ Handled ~> (exit_code # None)
    /\ [](exit_code = Some(0) => (main_pc = "done" /\ Stopped \in Range(status_log)))
    /\ [](exit_code = Some(1) => (watchdog /\ Handled))

C17_Witness ==
    /\ exit_code = Some(1)
    /\ main_pc = "join"
    /\ join_queue # <<>>
    /\ pc[Head(join_queue)] = "body"

Whole(img) == \A c, d \in Cells : img[c] = img[d]

\* C19: while a Program body holds the write lock of the image, no other
\* Program body and no Output copy holds the lock; the copy an Output sends
\* out holds all or none of the writes of a Program tick, and the writes of
\* two Program ticks never interleave
C19_ImageAtomic ==
    /\ ctx_writer # None =>
            /\ ctx_readers = {}
            /\ \A t \in ProgramNames \cup OutputNames :
                    ctx_pc[t] \in {"write", "copy"} => t = ctx_writer[1]
    /\ \A o \in OutputNames : ctx_pc[o] = "send" => Whole(data[o])
    /\ ctx_writer = None => Whole(image)
    /\ \A c \in Cells : image[c] = Default \/
            \E p \in ProgramNames : \E k \in 0..(MaxTicks - 1) : image[c] = Stamp(p, k)

C19_Witness ==
    /\ \E o \in OutputNames : ctx_pc[o] = "send" /\ data[o][1] = Stamp(<<"P", 1>>, 1)
    /\ \E p \in ProgramNames : ctx_pc[p] = "write" /\ cursor[p] = 2 /\ p # <<"P", 1>>

\* C20: a spawn of an Input, Output or Program thread that finds the status
\* neither Inactive nor Starting logs the error and returns: it creates no
\* thread, changes no table, no aggregate flag and no join handle, and the
\* process goes on; threads are created and registered only while the
\* status is Inactive or Starting
C20_LateSpawnRejected ==
    /\ [][spawn_error' # spawn_error =>
            /\ status \notin {Inactive, Starting}
            /\ UNCHANGED <<registry, wait_handles, join_queue, pc, exit_code,
                           status, status_log>>]_vars
    /\ [][(pc' # pc /\ \E t \in Threads : pc[t] = "unspawned" /\ pc'[t] # "unspawned")
            => status \in {Inactive, Starting}]_vars
    /\ [][(DOMAIN input_threads_ready' # DOMAIN input_threads_ready
            \/ DOMAIN program_threads_ready' # DOMAIN program_threads_ready
            \/ DOMAIN output_threads_stopped' # DOMAIN output_threads_stopped
            \/ wait_handles' \notin {wait_handles, None})
            => status \in {Inactive, Starting}]_vars

C20_Witness ==
    /\ spawn_error
    /\ status = Active
    /\ Spawned # {}
    /\ Cardinality(Spawned) < MaxThreads

\* C21: every call of spawn with kind Service has registered the thread and
\* started its closure, whatever the controller status was
C21_ServiceAlwaysSpawned ==
    \A s \in svc_called : s \in DOMAIN thread_stats /\ s \in svc_started

\* C21, what the code does: a Service is registered and started exactly when
\* WAIT_HANDLES was Some at the call, and shutdown() makes it None for good
C21_ServiceSpawnedWhileHandles ==
    /\ \A s \in svc_called : s \in DOMAIN thread_stats <=> s \in svc_started
    /\ [][\A s \in ServiceNames :
            (s \in svc_called' /\ s \notin svc_called)
                => (s \in svc_started' <=> wait_handles # None)]_vars
    /\ [][wait_handles = None => wait_handles' = None]_vars

\* C22: a call of spawn with a registered name fails with busy, for every
\* kind: the step leaves every record of thread_stats, every readiness and
\* stopped entry and the aggregate flags as they were, starts no thread and
\* keeps no handle; a record, once created, is never replaced; the failure
\* is fatal
C22_DuplicateIsBusy ==
    /\ [][busy' # busy =>
            /\ busy = None
            /\ busy'[1] \in DOMAIN thread_stats
            /\ thread_stats' = thread_stats
            /\ registry' = registry
            /\ pc' = pc
            /\ svc_started' = svc_started
            /\ wait_handles' = wait_handles]_vars
    /\ [][\A n \in DOMAIN thread_stats :
            n \in DOMAIN thread_stats' /\ thread_stats'[n] = thread_stats[n]]_vars
    /\ [](busy # None => exit_code = Some(1))

C22_Witness ==
    /\ busy # None
    /\ Kind(busy[1]) = "O"
    /\ Cardinality(OutputsRegistered) = 2
    /\ status = Starting

\* C23: report_jitter never waits for the stats channel: a thread with a
\* reported Loop can always complete its call; the channel never holds more
\* than its capacity; a call made while the channel is full discards the
\* sample (the channel and every record of thread_stats stay as they are),
\* and any other call queues the sample
C23_ReportNeverBlocks ==
    /\ [](Len(stats_ch) <= StatsChannelSize)
    /\ []((alive /\ sent < MaxSamples) =>
            \A t \in Reporters : ENABLED report_jitter(t, U16_MAX))
    /\ [][sent' # sent =>
            /\ sent' = sent + 1
            /\ thread_stats' = thread_stats
            /\ IF Len(stats_ch) = StatsChannelSize
               THEN stats_ch' = stats_ch /\ dropped' = dropped + 1
               ELSE Len(stats_ch') = Len(stats_ch) + 1 /\ dropped' = dropped]_vars

C23_Witness ==
    /\ dropped = 1
    /\ Len(stats_ch) = StatsChannelSize
    /\ stats_cur = None
    /\ \A n \in DOMAIN thread_stats : thread_stats[n] = ThreadStatsDefault

\* C24: every record that has jitter statistics has iters >= 1, and the
\* ThreadInfo made of it has jitter_avg <= jitter_max and
\* jitter_min <= jitter_last <= jitter_max, after any sequence of samples,
\* resets and overflow self-resets
C24_JitterOrdered ==
    \A n \in DOMAIN thread_stats :
        thread_stats[n].jitter # None =>
            /\ thread_stats[n].iters >= 1
            /\ LET i == info(thread_stats[n])[1]
               IN  /\ i.jitter_avg <= i.jitter_max
                   /\ i.jitter_min <= i.jitter_last
                   /\ i.jitter_last <= i.jitter_max

\* a record after an overflow self-reset (iters = 1 with min < max) whose
\* last sample lies strictly between the extremes
C24_Witness ==
    \E n \in DOMAIN thread_stats :
        /\ thread_stats[n].jitter # None
        /\ thread_stats[n].iters = 1
        /\ LET i == info(thread_stats[n])[1]
           IN  /\ i.jitter_min < i.jitter_last
               /\ i.jitter_last < i.jitter_max
               /\ i.jitter_avg < i.jitter_max

\* the step processes a sample of n
Sampled(n) ==
    /\ n \in DOMAIN thread_stats /\ n \in DOMAIN thread_stats'
    /\ thread_stats'[n] # thread_stats[n]
    /\ thread_stats'[n].jitter # None

\* the step processes a sample of n that finds iters at its maximum, or a
\* total that the sample would take over the maximum
Overflows(n) ==
    /\ Sampled(n)
    /\ thread_stats[n].jitter # None
    /\ \/ thread_stats[n].iters = U32_MAX
       \/ thread_stats[n].jitter[1].total > U32_MAX - thread_stats'[n].jitter[1].last

\* C25: a sample that finds iters at the 32-bit maximum, or that would take
\* the total over the 32-bit maximum, leaves the single-sample state of a
\* first sample: iters = 1 and min = max = last = total = the sample
C25_OverflowSingleSample ==
    [][\A n \in ServiceNames :
        Overflows(n) =>
            thread_stats'[n] =
                [iters |-> 1,
                 jitter |-> Some(JitterStats_new(thread_stats'[n].jitter[1].last))]]_vars

\* C25, what the code does: on overflow the counters do not wrap, iters
\* becomes 1 and total and last become the sample, while min and max stay
\* the extremes of all samples since the last reset
C25_OverflowKeepsExtremes ==
    [][\A n \in ServiceNames :
        Overflows(n) =>
            LET old == thread_stats[n].jitter[1]
                new == thread_stats'[n].jitter[1]
            IN  /\ thread_stats'[n].iters = 1
                /\ new.total = new.last
                /\ new.min = (IF old.min > new.last THEN new.last ELSE old.min)
                /\ new.max = (IF old.max < new.last THEN new.last ELSE old.max)]_vars

\* C26: thread_stats.reset sets iters to 0 and removes the jitter record of
\* every registered thread, and leaves the set of registered threads, the
\* readiness and stopped tables, the aggregate flags and the status as they
\* were; thread_stats.get maps a thread to null until the collector has
\* processed a sample of that thread
C26_ResetClearsStats ==
    /\ [][resets' > resets =>
            /\ DOMAIN thread_stats' = DOMAIN thread_stats
            /\ \A n \in DOMAIN thread_stats' :
                    thread_stats'[n].iters = 0 /\ thread_stats_get'[n] = None
            /\ registry' = registry
            /\ status' = status]_vars
    /\ [][\A n \in DOMAIN thread_stats :
            (thread_stats_get[n] = None /\ thread_stats_get'[n] # None) =>
                /\ stats_cur # None
                /\ stats_cur[1][1] = n
                /\ stats_cur' = None]_vars

\* a reset after samples of two threads have been processed, with loop
\* threads registered
C26_Witness ==
    /\ resets = 1
    /\ sent >= 2
    /\ dropped = 0
    /\ stats_ch = <<>>
    /\ stats_cur = None
    /\ Cardinality(Reporters) = 2
    /\ InputsRegistered # {}
    /\ OutputsRegistered # {}
    /\ \A n \in DOMAIN thread_stats : thread_stats_get[n] = None

\* C27: thread_stats.reset is idempotent: a reset leaves every record with
\* iters = 0 and no jitter statistics, and a reset that follows a reset with
\* no sample processed in between leaves thread_stats exactly as it was
C27_ResetIdempotent ==
    /\ [](\A n \in DOMAIN thread_stats :
            ts_reset(ts_reset(thread_stats[n])) = ts_reset(thread_stats[n]))
    /\ [][resets' > resets =>
            /\ \A n \in DOMAIN thread_stats' : thread_stats'[n] = ThreadStatsDefault
            /\ resets >= 1 => thread_stats' = thread_stats]_vars

\* two resets in a row after samples have been processed
C27_Witness ==
    /\ resets = 2
    /\ sent >= 2
    /\ dropped = 0
    /\ stats_ch = <<>>
    /\ stats_cur = None
    /\ \A n \in DOMAIN thread_stats : thread_stats[n] = ThreadStatsDefault

\* the step is a return of tick()
Returns ==
    /\ tick_pc' = "body"
    /\ \/ tick_pc \in {"sleep", "overrun"}
       \/ tick_pc = "body" /\ next_iter' # next_iter

\* C28: tick() returns false exactly when it was called after the deadline;
\* it then has not slept and the new deadline is the time of the return plus
\* one interval; a tick() that returns true after a sleep returns at or
\* after the deadline; and the deadline a tick() leaves is always later than
\* the time it was called, so a tick() called again at once sleeps: missed
\* periods are not caught up in a burst
C28_NoCatchUp ==
    /\ [][Returns =>
            /\ result' = Some(FALSE) <=> tk' > next_iter
            /\ result' = Some(FALSE) => (~slept' /\ next_iter' = now' + interval)
            /\ result' = Some(TRUE) => next_iter' = next_iter + interval
            /\ slept' => now >= next_iter]_vars
    /\ [][(tick_pc = "body" /\ tick_pc' = "sleep") => now < next_iter]_vars
    /\ []((tick_pc = "body" /\ result # None) => next_iter > tk)

\* a tick() called more than two intervals late has returned false, and the
\* tick() after it has slept to the new deadline
C28_Witness ==
    /\ tick_pc = "body"
    /\ interval = MaxInterval
    /\ overrun_by > 2 * interval
    /\ result = Some(TRUE)
    /\ slept
    /\ tk < now
    /\ now = next_iter - interval

\* the step writes the response to the request in api_cur
Answers == api_cur # None /\ api_cur' = None

\* the request names no method of the API, or has parameters
Malformed(req) ==
    \/ req.method \notin {"test", "info", "thread_stats.get", "thread_stats.reset"}
    \/ req.params # None

\* C29: on an open connection every request with version 2.0 that has been
\* read is answered by exactly one response with version 2.0 before the next
\* request is read; the response to an unknown method, or to a method called
\* with parameters, is an error, and that step changes neither thread_stats
\* nor the registry nor the status and leaves the connection open
C29_EveryRequestAnswered ==
    /\ [](api_read = api_nresp + (IF api_cur # None THEN 1 ELSE 0))
    /\ [](api_cur # None => (conn = "open" /\ api_cur[1].jsonrpc = JSON_RPC))
    /\ [][api_nresp' # api_nresp => (Answers /\ api_nresp' = api_nresp + 1)]_vars
    /\ [][Answers =>
            /\ api_nresp' = api_nresp + 1
            /\ api_resp'[1].jsonrpc = JSON_RPC
            /\ conn' = "open"
            /\ Malformed(api_cur[1]) =>
                    /\ api_resp'[1].error # None
                    /\ api_resp'[1].result = None
                    /\ thread_stats' = thread_stats
                    /\ registry' = registry
                    /\ status' = status]_vars

\* the response to a thread_stats.reset with parameters, written after
\* another response, with statistics in the registry
C29_Witness ==
    /\ conn = "open"
    /\ api_nresp = 2
    /\ api_read = 2
    /\ api_resp # None
    /\ api_resp[1].error = Some("invalid_params")
    /\ \E n \in DOMAIN thread_stats : thread_stats[n].iters = 2

\* the step reads a request with another version than 2.0
ReadsOtherVersion ==
    /\ conn = "open"
    /\ api_cur = None
    /\ api_in # <<>>
    /\ api_in' # api_in
    /\ Len(api_in') <= Len(api_in)
    /\ Head(api_in).hdr = 0
    /\ Head(api_in).jsonrpc # JSON_RPC

\* C30: a well-framed request with another version than 2.0 is answered
\* with an error response, and the connection stays open
C30_OtherVersionAnswered ==
    [][ReadsOtherVersion =>
        /\ conn' = "open"
        /\ api_nresp' = api_nresp + 1
        /\ api_resp' # None
        /\ api_resp'[1].error # None]_vars

\* C30, what the code does: the connection is closed without a response,
\* and what the client has written after that request is never read
C30_OtherVersionCloses ==
    [][ReadsOtherVersion =>
        /\ conn' = "closed"
        /\ api_nresp' = api_nresp
        /\ api_resp' = api_resp
        /\ api_in' = <<>>]_vars

\* the step reads a frame whose first byte is not 0
ReadsBadFrame ==
    /\ conn = "open"
    /\ api_cur = None
    /\ api_in # <<>>
    /\ Len(api_in') < Len(api_in)
    /\ Head(api_in).hdr # 0

\* C31: reading a frame whose first byte is not 0 closes the connection
\* without a dispatch, a response or a change of the statistics, the
\* registry, the status or the process; no such frame is ever dispatched;
\* and after any error of a connection's handler the process runs, the
\* socket exists and the listener accepts the next connection
C31_BadFrameClosesConnection ==
    /\ [][ReadsBadFrame =>
            /\ conn' = "closed"
            /\ api_err' = Some("invalid_data")
            /\ api_cur' = None
            /\ api_read' = api_read
            /\ api_nresp' = api_nresp
            /\ api_resp' = api_resp
            /\ thread_stats' = thread_stats
            /\ registry' = registry
            /\ status' = status
            /\ exit_code' = exit_code
            /\ socket' = socket]_vars
    /\ [](api_cur # None => api_cur[1].hdr = 0)
    /\ [](api_err # None => (alive /\ socket))
    /\ []((api_err # None /\ conn = "closed" /\ api_conns < MaxConns)
            => ENABLED api_connect)

\* a request is answered on the connection that follows the one closed for
\* a bad frame; the statistics the bad frame would have reset are there
C31_Witness ==
    /\ api_err = Some("invalid_data")
    /\ api_conns = 2
    /\ conn = "open"
    /\ api_nresp = 1
    /\ api_resp # None
    /\ api_resp[1].error = None
    /\ resets = 0
    /\ \E n \in DOMAIN thread_stats : thread_stats[n].iters = 2

Actions == 1..MaxActions

\* the closure of action a found a sender at each of its sends
PublisherConnected(a) == act[a].res # Some("not_registered") /\ ~act[a].orphan

\* C32: for an action whose item has a handler, with the publisher
\* connected: the running event is sent, then the handler is called once,
\* then one terminal event is sent, completed if the handler returned Ok and
\* failed if not; for an item without a handler no running event is sent,
\* no handler is called and the one terminal event is failed
C32_ActionEventOrder ==
    /\ [](\A a \in Actions :
            /\ act[a].pc \in {"none", "lookup"} =>
                    (events[a] = <<>> /\ act[a].calls = 0)
            /\ act[a].pc = "handler" =>
                    (events[a] = <<"running">> /\ act[a].calls = 1)
            /\ (act[a].pc = "terminal" /\ act[a].res \in {Some("ok"), Some("handler_error")}) =>
                    (events[a] = <<"running">> /\ act[a].calls = 1)
            /\ (act[a].pc = "done" /\ PublisherConnected(a)) =>
                    /\ act[a].res = Some("ok") =>
                            (events[a] = <<"running", "completed">> /\ act[a].calls = 1)
                    /\ act[a].res = Some("handler_error") =>
                            (events[a] = <<"running", "failed">> /\ act[a].calls = 1)
                    /\ act[a].res = Some("not_found") =>
                            (events[a] = <<"failed">> /\ act[a].calls = 0))
    /\ [][\A a \in Actions :
            (act[a].pc = "lookup" /\ act'[a].pc # "lookup") =>
                /\ (act[a].oid \in action_handlers /\ publisher_tx) =>
                        act'[a].pc = "handler"
                /\ act[a].oid \notin action_handlers =>
                        (act'[a].pc = "terminal" /\ act'[a].res = Some("not_found"))]_vars
    /\ [][\A a \in Actions :
            (act[a].pc = "handler" /\ act'[a].pc # "handler") =>
                (act'[a].pc = "terminal" /\ events'[a] = events[a])]_vars

\* three finished actions with the publisher connected: the handler
\* returned Ok, the handler returned Err, the item has no handler
C32_Witness ==
    /\ \A a \in Actions : act[a].pc = "done" /\ PublisherConnected(a)
    /\ \E a \in Actions : events[a] = <<"running", "completed">>
    /\ \E a \in Actions : events[a] = <<"running", "failed">>
    /\ \E a \in Actions : events[a] = <<"failed">> /\ act[a].oid = 2

\* the actions whose handler is executing
InHandler == {a \in Actions : act[a].pc = "handler"}

\* C39: at most one handler executes at any time, the executing closure
\* holds the lock of the handler table, and the table does not change while
\* a handler executes
C39_HandlersSerialised ==
    /\ [](Cardinality(InHandler) <= 1)
    /\ [](\A a \in InHandler : ah_lock = Some(a))
    /\ [][InHandler # {} => action_handlers' = action_handlers]_vars
    /\ [](InHandler # {} => ~ENABLED append_action_handler(2))

\* a handler executes while the closures of all other requests, as many as
\* the pool has threads, wait for the table
C39_Witness ==
    /\ \E a \in Actions :
        /\ act[a].pc = "handler"
        /\ \A b \in Actions \ {a} : act[b].pc \in {"lookup", "done"}
        /\ \E b \in Actions \ {a} :
            act[b].pc = "lookup" /\ act[b].oid \in action_handlers
    /\ Cardinality(Running) = ActionPoolSize

\* an array of a register type was converted to Registers, and the slice at
\* index 0 was converted to an array of the same type and length
RoundTrip ==
    /\ mb.pc = "out"
    /\ mb.ty \in RegisterTypes
    /\ mb.to = mb.ty
    /\ ~mb.scalar
    /\ mb.idx = 0
    /\ mb.n = Len(mb.vals)

\* the registers of each value are its 16-bit words, most significant first
WordsMostSignificantFirst ==
    (mb.pc # "none" /\ mb.ty \in RegisterTypes) =>
        /\ Len(mb.regs) = Units(mb.ty) * Len(mb.vals)
        /\ \A i \in 1..Len(mb.vals), j \in 1..Units(mb.ty) :
            mb.regs[(i - 1) * Units(mb.ty) + j] =
                (as_unsigned(mb.ty, mb.vals[i]) \div (WORD ^ (Units(mb.ty) - j))) % WORD

\* C33, as stated: the round trip gives the array back for every array, and
\* the words of a value are in consecutive registers, most significant first
C33_RoundTripEveryArray ==
    /\ RoundTrip => mb.out = Some(Ok(mb.vals))
    /\ WordsMostSignificantFirst

\* C33, amended: the round trip gives the array back for every array that
\* is not empty (the slice at index 0 of no registers is an error), and the
\* words of a value are in consecutive registers, most significant first
C33_RoundTripNonEmpty ==
    /\ (RoundTrip /\ Len(mb.vals) >= 1) => mb.out = Some(Ok(mb.vals))
    /\ (RoundTrip /\ Len(mb.vals) = 0) => mb.out = Some(Err("invalid_data"))
    /\ WordsMostSignificantFirst

\* the round trip of an i64 array with a negative value and a value whose
\* words are all different
C33_Witness ==
    /\ RoundTrip
    /\ mb.ty = "i64"
    /\ Len(mb.vals) = 2
    /\ mb.vals[1] < 0
    /\ mb.vals[2] = Pattern("i64")
    /\ Len(mb.regs) = 8
    /\ mb.out = Some(Ok(mb.vals))

\* the number of coils / registers the conversion reads
Needed == IF mb.scalar THEN Units(mb.to) ELSE mb.n * Units(mb.to)

\* C34: slice_at(idx) is an error exactly if idx is not less than the number
\* of coils / registers, and the slice from idx to the end otherwise; a
\* conversion of a slice that needs more coils / registers than the slice
\* has is an error, and a conversion that succeeds gives all n elements
C34_ShortSliceIsError ==
    mb.pc = "out" =>
        /\ mb.slice # None /\ mb.out # None
        /\ ~mb.slice[1].ok <=> mb.idx >= Len(mb.regs)
        /\ mb.slice[1].ok =>
                mb.slice[1].value = SubSeq(mb.regs, mb.idx + 1, Len(mb.regs))
        /\ ~mb.slice[1].ok => mb.out = mb.slice
        /\ (mb.slice[1].ok /\ Needed > Len(mb.slice[1].value)) =>
                mb.out = Some(Err("invalid_data"))
        /\ (mb.slice[1].ok /\ Needed <= Len(mb.slice[1].value)) => mb.out[1].ok
        /\ (mb.out[1].ok /\ ~mb.scalar) => Len(mb.out[1].value) = mb.n

\* a slice of three registers is converted to a [u32; 2], which needs four
C34_Witness ==
    /\ mb.pc = "out"
    /\ mb.to = "u32"
    /\ ~mb.scalar
    /\ mb.n = 2
    /\ Len(mb.regs) = 4
    /\ mb.idx = 1
    /\ mb.slice[1].ok
    /\ Len(mb.slice[1].value) = 3
    /\ mb.out = Some(Err("invalid_data"))

\* no tick() has been called after its deadline
OnTime == overrun_by = 0 /\ tick_pc # "overrun"

\* C35: as long as no tick() was called after its deadline, the k-th tick()
\* returns true, at or after t0 + k * interval, and leaves the deadline at
\* t0 + (k + 1) * interval, however long the bodies ran and however late
\* the sleeps woke up
C35_DriftFree ==
    /\ []((OnTime /\ tick_pc \in {"body", "sleep"}) =>
            next_iter = t0 + (nticks + 1) * interval)
    /\ [][(Returns /\ OnTime') =>
            /\ nticks' = nticks + 1
            /\ result' = Some(TRUE)
            /\ now' >= t0 + nticks' * interval
            /\ next_iter' = t0 + (nticks' + 1) * interval]_vars

\* the third tick() has returned in a loop that was never late for a
\* deadline, after a sleep that woke up late and a body that ran for a while
C35_Witness ==
    /\ OnTime
    /\ tick_pc = "body"
    /\ interval = MaxInterval
    /\ nticks = 3
    /\ slept
    /\ now > wake_at
    /\ tk > t0 + 2 * interval
    /\ next_iter = t0 + 4 * interval

\* t is at its gate
Gated(t) == pc[t] = "gate"

\* the wake-up of t was lost: t waits, the status permits its kind, and no
\* notify_all was made since the wait began
LostWakeup(t) ==
    /\ Gated(t)
    /\ gate[t].pc = "wait"
    /\ can_run(t)
    /\ gate[t].seen = Len(status_log)

\* C36, as stated: under fair scheduling a thread that is at its gate when
\* the status permits its kind passes the gate
C36_GatedEventuallyPass ==
    \A t \in Threads : (Gated(t) /\ can_run(t)) ~> ~Gated(t)

\* C36, amended: under fair scheduling a thread that is at its gate when the
\* status permits its kind passes the gate, a lost wake-up or not, unless
\* the process ends first
C36_GatedPassUnlessExit ==
    \A t \in Threads : (Gated(t) /\ can_run(t)) ~> (~Gated(t) \/ ~alive)

\* C36, the lost wake-up alone: under fair scheduling a thread whose wake-up
\* was lost tests the predicate again, unless the process ends first
C36_RecheckAfterLostWakeup ==
    \A t \in Threads : LostWakeup(t) ~> (gate[t].pc = "check" \/ ~alive)

\* the wake-up of an Input was lost when run() set Syncing, and the wake-up
\* of a Program when the Input set Preparing
C36_Witness ==
    /\ \E t \in InputsRegistered : pc[t] \in {"top", "body"}
    /\ \E t \in ProgramsRegistered : LostWakeup(t)
    /\ status = Preparing
    /\ ~term_flag

\* C37: a snapshot is always computable.  In every reachable state, after any
\* interleaving of samples, overflow self-resets and thread_stats.reset, a
\* record with a jitter record has iters >= 1 (the divisor of the average in
\* ThreadStats::info), a record without one has the snapshot None, and every
\* step that changes a record either empties it (iters 0, no jitter record)
\* or leaves it with a jitter record and iters >= 1.
Computable(ts) ==
    IF ts.jitter = None
    THEN info(ts) = None
    ELSE ts.iters >= 1 /\ ts.iters <= U32_MAX /\ info(ts) # None

C37_SnapshotComputable ==
    /\ [](\A n \in DOMAIN thread_stats : Computable(thread_stats[n]))
    /\ [][\A n \in DOMAIN thread_stats \cap DOMAIN thread_stats' :
            thread_stats'[n] # thread_stats[n] =>
                \/ thread_stats'[n] = [iters |-> 0, jitter |-> None]
                \/ /\ thread_stats'[n].jitter # None
                   /\ thread_stats'[n].iters >= 1]_vars

\* a record whose counter is at its maximum (the next sample restarts it at
\* 1) next to the snapshot of it, which divides by that counter
C37_Witness ==
    \E n \in DOMAIN thread_stats :
        /\ thread_stats[n].jitter # None
        /\ thread_stats[n].iters = U32_MAX
        /\ thread_stats_get[n] # None
        /\ thread_stats_get[n][1].iters = U32_MAX

\* C38: the lifecycle module cannot deadlock on its two mutexes.
StorePcs == {"set_preparing", "set_active", "set_stopped"}

\* a step of set_status
StatusStored == status_log' # status_log

\* no thread that waits on or holds the status mutex holds the registry, and
\* a step that takes the registry is made by a thread that neither holds the
\* status mutex nor waits for it
C38_RegistryFirst ==
    /\ [](\A t \in Threads :
            (pc[t] = "gate" /\ gate[t].pc \in {"lock", "locked", "wait"})
                => cs_lock # t)
    /\ [](status_mutex # Free => status_mutex # cs_lock)
    /\ [][\A t \in Threads :
            (cs_lock' = t /\ cs_lock # t) =>
                /\ status_mutex # t
                /\ pc[t] \in {"tick", "mark_stopped"}]_vars
    /\ [][(cs_lock' = MainName /\ cs_lock # MainName) =>
            main_pc = "active_if_none"]_vars

\* every store takes the status mutex from nobody; the stores of mark-ready
\* and mark-stopped are made by the holder of the registry
C38_MarkStoresUnderRegistry ==
    /\ [][StatusStored => status_mutex = Free]_vars
    /\ [][\A t \in Threads :
            (StatusStored /\ pc[t] \in StorePcs /\ pc'[t] # pc[t]) => cs_lock = t]_vars
    /\ [](\A t \in Threads : pc[t] \in StorePcs => cs_lock = t)

\* the holder of the status mutex can always take its next step, which
\* releases the mutex; the holder of the registry waits for nothing but the
\* status mutex, and its store releases the registry or leads to the next
\* store: every set_status call completes while the process lives
C38_NobodyBlocked ==
    /\ []((alive /\ status_mutex # Free) =>
            ENABLED status_changed_wait_for(status_mutex))
    /\ [](\A t \in Threads :
            (alive /\ cs_lock = t /\ status_mutex = Free) => ENABLED MarkStore(t))
    /\ []((alive /\ cs_lock = MainName /\ status_mutex = Free) =>
            ENABLED set_active_store)
    /\ []((alive /\ main_pc \in {"store_preparing", "store_stopped"}
                 /\ status_mutex = Free) =>
            ENABLED (set_preparing_store \/ stop_store))

\* C38 as stated: the startup helpers (set_preparing_if_no_inputs and
\* set_active_if_no_inputs_and_programs) store the status while the caller
\* holds the registry
C38_HelpersStoreUnderRegistry ==
    /\ C38_RegistryFirst
    /\ C38_MarkStoresUnderRegistry
    /\ C38_NobodyBlocked
    /\ [][(StatusStored /\ main_pc \in {"store_preparing", "active_locked"}
                        /\ main_pc' # main_pc) => cs_lock = MainName]_vars

\* C38 (amended): the lifecycle module cannot deadlock on its two mutexes.
\* A thread that holds both took the registry first (mark-ready, mark-stopped
\* and set_active_if_no_inputs_and_programs store under the registry;
\* set_preparing_if_no_inputs and stop_if_no_output_or_sfn have released it
\* when they store), no thread that waits on or holds the status mutex takes
\* the registry, and no holder of either mutex is blocked by the other.
C38_NoDeadlock ==
    /\ C38_RegistryFirst
    /\ C38_MarkStoresUnderRegistry
    /\ C38_NobodyBlocked
    /\ [][(StatusStored /\ main_pc = "active_locked" /\ main_pc' # main_pc) =>
            cs_lock = MainName]_vars
    /\ [][(StatusStored /\ main_pc \in {"store_preparing", "store_stopped"}
                  /\ main_pc' # main_pc) => cs_lock # MainName]_vars

\* a thread holds the registry in mark-ready and waits for the status mutex,
\* which a gated thread holds, while run() waits for the registry
C38_Witness ==
    /\ alive
    /\ \E t \in Threads : cs_lock = t /\ pc[t] \in StorePcs
    /\ status_mutex # Free
    /\ main_pc \in {"preparing_if_no_inputs", "active_if_none"}

====
